---------------------------- MODULE Spec2Model ----------------------------
(***************************************************************************)
(* A model of lgdebug: the structural diff / patch engine (core/diff.py),  *)
(* the collector (core/collector.py), the SQLite storage with its          *)
(* checkpoint-and-diff reconstruction (storage/sqlite.py, sqlite_sync.py)  *)
(* and the node wrapper of the LangGraph adapter (adapters/langgraph.py).  *)
(*                                                                         *)
(* Conventions.                                                            *)
(*  - A Python str that the code inspects character by character (a state  *)
(*    key, a diff path) is a sequence of one-character strings.  Other     *)
(*    strings (scalar values, error texts, ids) are TLA+ strings.          *)
(*  - A serialized tree is a record with the same five fields whatever its *)
(*    kind, so that any two trees can be compared:                         *)
(*        k     "null" | "int" | "str" | "list" | "dict" | "error"         *)
(*        n     the value of an int                                        *)
(*        s     the value of a str                                         *)
(*        keys  the keys of a dict, sorted (Python compares dicts without  *)
(*              regard to insertion order, so the sorted form makes TLA+   *)
(*              equality coincide with Python ==)                          *)
(*        items the values of a dict (aligned with keys) or the elements   *)
(*              of a list                                                  *)
(*    Kind "error" is not a tree: it stands for "the call raised".         *)
(*  - Booleans and floats are left out of the scalar universe (Python      *)
(*    compares True == 1 and 1 == 1.0; with ints and strs only, == is      *)
(*    structural equality).                                                *)
(***************************************************************************)
EXTENDS Integers, Sequences, FiniteSets, TLC

(***************************************************************************)
(* Bounds of the model.                                                    *)
(***************************************************************************)
\* longest list among the trees fed to compute_diff / apply_diff
MaxLen == 2
\* scalar ints of those trees are 1..MaxVal
MaxVal == 2
\* calls of the collector (start_execution, record_step, end_execution) in
\* one behaviour
MaxOps == 4
\* checkpoint_interval is 1..MaxInterval
MaxInterval == 2

(***************************************************************************)
(* Strings as character sequences.                                         *)
(***************************************************************************)
\* The characters the model uses, in code-point order. "#" (35) marks an
\* int used as a dict key (see IntKey); it never occurs in a str key.
Alphabet ==
  << "#", ".", "0", "1", "2", "3", "4", "5", "6", "7", "8", "9", "[", "]",
     "_", "a", "b", "c", "d", "e", "f", "g", "h", "i", "j", "k", "l", "m",
     "n", "o", "p", "q", "r", "s", "t", "u", "v", "w", "x", "y", "z" >>

CharRank(c) == CHOOSE i \in 1..Len(Alphabet) : Alphabet[i] = c

Digits == << "0", "1", "2", "3", "4", "5", "6", "7", "8", "9" >>

IsDigit(c) == \E i \in 1..10 : Digits[i] = c

DigitVal(c) == (CHOOSE i \in 1..10 : Digits[i] = c) - 1

\* str.__lt__: lexicographic order by code point
RECURSIVE StrLess(_, _)
StrLess(a, b) ==
  IF b = <<>> THEN FALSE
  ELSE IF a = <<>> THEN TRUE
  ELSE IF Head(a) = Head(b) THEN StrLess(Tail(a), Tail(b))
  ELSE CharRank(Head(a)) < CharRank(Head(b))

\* f"{i}" for a non-negative int
RECURSIVE IntToStr(_)
IntToStr(i) ==
  IF i < 10 THEN << Digits[i + 1] >>
  ELSE IntToStr(i \div 10) \o << Digits[(i % 10) + 1] >>

\* int(idx_str) for a string of decimal digits
RECURSIVE StrToInt(_)
StrToInt(str) ==
  IF str = <<>> THEN 0
  ELSE 10 * StrToInt(SubSeq(str, 1, Len(str) - 1)) + DigitVal(str[Len(str)])

\* str.endswith
EndsWith(str, suffix) ==
  /\ Len(str) >= Len(suffix)
  /\ SubSeq(str, Len(str) - Len(suffix) + 1, Len(str)) = suffix

Reverse(seq) == [i \in 1..Len(seq) |-> seq[Len(seq) + 1 - i]]

\* the literal ".length" of diff.py
DotLength == << ".", "l", "e", "n", "g", "t", "h" >>

(***************************************************************************)
(* Serialized trees.                                                       *)
(***************************************************************************)
NullV == [k |-> "null", n |-> 0, s |-> "", keys |-> <<>>, items |-> <<>>]

IntV(i) == [k |-> "int", n |-> i, s |-> "", keys |-> <<>>, items |-> <<>>]

StrV(str) == [k |-> "str", n |-> 0, s |-> str, keys |-> <<>>, items |-> <<>>]

ListV(elems) == [k |-> "list", n |-> 0, s |-> "", keys |-> <<>>, items |-> elems]

\* keys must be sorted
DictV(ks, vs) == [k |-> "dict", n |-> 0, s |-> "", keys |-> ks, items |-> vs]

EmptyDict == DictV(<<>>, <<>>)

\* "the call raised an exception"
ErrV == [k |-> "error", n |-> 0, s |-> "", keys |-> <<>>, items |-> <<>>]

IsDict(t) == t.k = "dict"

IsList(t) == t.k = "list"

\* an int used as a dict key: _set_at_path can store one (current[last] = value
\* with an int `last` on a dict); it equals no str key
IntKey(i) == << "#" >> \o IntToStr(i)

HasKey(d, key) == \E i \in 1..Len(d.keys) : d.keys[i] = key

KeyIndex(d, key) == CHOOSE i \in 1..Len(d.keys) : d.keys[i] = key

\* d[key]
DictGet(d, key) == d.items[KeyIndex(d, key)]

\* d[key] = value on a copy of d
DictSet(d, key, value) ==
  IF HasKey(d, key)
  THEN [d EXCEPT !.items[KeyIndex(d, key)] = value]
  ELSE LET pos == Cardinality({i \in 1..Len(d.keys) : StrLess(d.keys[i], key)})
       IN  [d EXCEPT
              !.keys = SubSeq(d.keys, 1, pos) \o << key >>
                         \o SubSeq(d.keys, pos + 1, Len(d.keys)),
              !.items = SubSeq(d.items, 1, pos) \o << value >>
                          \o SubSeq(d.items, pos + 1, Len(d.items))]

\* del d[key] on a copy of d
DictDel(d, key) ==
  LET pos == KeyIndex(d, key)
  IN  [d EXCEPT
         !.keys = SubSeq(d.keys, 1, pos - 1) \o SubSeq(d.keys, pos + 1, Len(d.keys)),
         !.items = SubSeq(d.items, 1, pos - 1) \o SubSeq(d.items, pos + 1, Len(d.items))]

(***************************************************************************)
(* core/models.py: StateDiff.                                              *)
(***************************************************************************)
StateDiff == [changed |-> <<>>, added |-> <<>>, removed |-> <<>>]

is_empty(diff) == diff.changed = <<>> /\ diff.added = <<>> /\ diff.removed = <<>>

(***************************************************************************)
(* core/diff.py: compute_diff.  Each helper takes the StateDiff built so   *)
(* far and returns it with its own entries appended, in the order in which *)
(* the code appends them.                                                  *)
(***************************************************************************)
_join_path(parent, key) ==
  IF parent = <<>> THEN key ELSE parent \o << "." >> \o key

\* f"{path}[{i}]": i is the 0-based Python index
ItemPath(path, i) == path \o << "[" >> \o IntToStr(i) \o << "]" >>

\* "before != after" on two values that are not both dicts or both lists:
\* a float nan differs from every value, itself included
NotEqual(before, after) == before # after \/ before.k = "nan"

RECURSIVE _diff_values(_, _, _, _, _)
RECURSIVE _diff_dicts(_, _, _, _, _)
RECURSIVE _diff_lists(_, _, _, _, _)
RECURSIVE DiffSharedKeys(_, _, _, _, _, _)
RECURSIVE DiffPrefix(_, _, _, _, _, _)

_diff_values(before, after, path, diff, ignore_keys) ==
  IF IsDict(before) /\ IsDict(after)
  THEN _diff_dicts(before, after, path, diff, ignore_keys)
  ELSE IF IsList(before) /\ IsList(after)
  THEN _diff_lists(before, after, path, diff, ignore_keys)
  ELSE IF NotEqual(before, after)
  THEN [diff EXCEPT !.changed =
          Append(@, [path |-> path, old_value |-> before, new_value |-> after])]
  ELSE diff

\* the loop over sorted(before_keys & after_keys)
DiffSharedKeys(shared, before, after, path, diff, ignore_keys) ==
  IF shared = <<>> THEN diff
  ELSE LET key == Head(shared)
           d1 == _diff_values(DictGet(before, key), DictGet(after, key),
                              _join_path(path, key), diff, ignore_keys)
       IN  DiffSharedKeys(Tail(shared), before, after, path, d1, ignore_keys)

_diff_dicts(before, after, path, diff, ignore_keys) ==
  LET Kept(key) == IF path = <<>> THEN key \notin ignore_keys ELSE TRUE
      before_keys == SelectSeq(before.keys, Kept)
      after_keys == SelectSeq(after.keys, Kept)
      InBefore(key) == \E i \in 1..Len(before_keys) : before_keys[i] = key
      InAfter(key) == \E i \in 1..Len(after_keys) : after_keys[i] = key
      NotInBefore(key) == ~InBefore(key)
      NotInAfter(key) == ~InAfter(key)
      addedKeys == SelectSeq(after_keys, NotInBefore)
      removedKeys == SelectSeq(before_keys, NotInAfter)
      shared == SelectSeq(before_keys, InAfter)
      d1 == [diff EXCEPT
               !.added = @ \o [i \in 1..Len(addedKeys) |->
                            [path |-> _join_path(path, addedKeys[i]),
                             value |-> DictGet(after, addedKeys[i])]],
               !.removed = @ \o [i \in 1..Len(removedKeys) |->
                            [path |-> _join_path(path, removedKeys[i]),
                             value |-> DictGet(before, removedKeys[i])]]]
  IN  DiffSharedKeys(shared, before, after, path, d1, ignore_keys)

\* the loop "for i in range(min_len)"; i is the 1-based position
DiffPrefix(i, before, after, path, diff, ignore_keys) ==
  LET m == Len(before.items)
      n == Len(after.items)
      min_len == IF m < n THEN m ELSE n
  IN  IF i > min_len THEN diff
      ELSE DiffPrefix(i + 1, before, after, path,
                      _diff_values(before.items[i], after.items[i],
                                   ItemPath(path, i - 1), diff, ignore_keys),
                      ignore_keys)

\* _diff_lists with the length entry appended whether or not the lengths differ
_diff_lists_always(before, after, path, diff, ignore_keys) ==
  LET m == Len(before.items)
      n == Len(after.items)
      min_len == IF m < n THEN m ELSE n
      d1 == DiffPrefix(1, before, after, path, diff, ignore_keys)
  IN  [d1 EXCEPT
         !.added = @ \o [j \in 1..(n - min_len) |->
                      [path |-> ItemPath(path, min_len + j - 1),
                       value |-> after.items[min_len + j]]],
         !.removed = @ \o [j \in 1..(m - min_len) |->
                      [path |-> ItemPath(path, min_len + j - 1),
                       value |-> before.items[min_len + j]]],
         !.changed = Append(@, [path |-> path \o DotLength,
                                old_value |-> IntV(m), new_value |-> IntV(n)])]

_diff_lists(before, after, path, diff, ignore_keys) ==
  LET m == Len(before.items)
      n == Len(after.items)
      min_len == IF m < n THEN m ELSE n
      d1 == DiffPrefix(1, before, after, path, diff, ignore_keys)
      d2 == [d1 EXCEPT
               !.added = @ \o [j \in 1..(n - min_len) |->
                            [path |-> ItemPath(path, min_len + j - 1),
                             value |-> after.items[min_len + j]]],
               !.removed = @ \o [j \in 1..(m - min_len) |->
                            [path |-> ItemPath(path, min_len + j - 1),
                             value |-> before.items[min_len + j]]]]
  IN  IF m # n
      THEN [d2 EXCEPT !.changed =
              Append(@, [path |-> path \o DotLength,
                         old_value |-> IntV(m), new_value |-> IntV(n)])]
      ELSE d2

compute_diff(before, after, ignore_keys) ==
  _diff_dicts(before, after, <<>>, StateDiff, ignore_keys)

(***************************************************************************)
(* core/diff.py: apply_diff.  The code mutates a deep copy in place; the   *)
(* helpers below return the mutated container instead.  ErrV is returned   *)
(* where the code raises (the exception leaves apply_diff).                *)
(***************************************************************************)
\* a path segment: a str key, an int index, or "bad" where int(idx_str) raises
StrSeg(str) == [t |-> "str", n |-> 0, s |-> str]

IntSeg(i) == [t |-> "int", n |-> i, s |-> <<>>]

BadSeg == [t |-> "bad", n |-> 0, s |-> <<>>]

\* the key under which a dict holds what a segment addresses
SegKey(seg) == IF seg.t = "int" THEN IntKey(seg.n) ELSE seg.s

\* the while loop of _parse_path from the 1-based position i on
RECURSIVE ParseFrom(_, _, _, _)
ParseFrom(path, i, current, segments) ==
  LET flushed == IF current # <<>> THEN Append(segments, StrSeg(current))
                 ELSE segments
  IN  IF i > Len(path) THEN flushed
      ELSE IF path[i] = "." THEN ParseFrom(path, i + 1, <<>>, flushed)
      ELSE IF path[i] = "["
      THEN LET closing == {j \in (i + 1)..Len(path) : path[j] = "]"}
               stop == IF closing = {} THEN Len(path) + 1
                       ELSE CHOOSE j \in closing : \A j2 \in closing : j <= j2
               idx_str == SubSeq(path, i + 1, stop - 1)
               isNumber == /\ idx_str # <<>>
                           /\ \A j \in 1..Len(idx_str) : IsDigit(idx_str[j])
           IN  IF isNumber
               THEN ParseFrom(path, stop + 1, <<>>,
                              Append(flushed, IntSeg(StrToInt(idx_str))))
               ELSE << BadSeg >>
      ELSE ParseFrom(path, i + 1, Append(current, path[i]), segments)

_parse_path(path) == ParseFrom(path, 1, <<>>, <<>>)

\* "while len(current) <= seg: current.append(fill)" on a list
ExtendList(lst, seg, fill) ==
  IF Len(lst.items) > seg THEN lst
  ELSE [lst EXCEPT !.items = @ \o [j \in 1..(seg + 1 - Len(lst.items)) |-> fill]]

\* _set_at_path below the parse: segments is not empty
RECURSIVE SetAtSegments(_, _, _)
SetAtSegments(current, segments, value) ==
  LET seg == Head(segments)
  IN  IF Len(segments) = 1
      THEN \* the last segment
           IF seg.t = "int"
           THEN IF IsList(current)
                THEN [ExtendList(current, seg.n, NullV) EXCEPT !.items[seg.n + 1] = value]
                ELSE IF IsDict(current) /\ Len(current.keys) > seg.n
                THEN DictSet(current, IntKey(seg.n), value)
                ELSE ErrV
           ELSE IF IsDict(current) THEN DictSet(current, seg.s, value)
           ELSE ErrV
      ELSE \* an intermediate segment
           IF seg.t = "int"
           THEN IF IsList(current)
                THEN LET ext == ExtendList(current, seg.n, EmptyDict)
                         sub == SetAtSegments(ext.items[seg.n + 1], Tail(segments), value)
                     IN  IF sub = ErrV THEN ErrV
                         ELSE [ext EXCEPT !.items[seg.n + 1] = sub]
                ELSE IF /\ IsDict(current)
                        /\ Len(current.keys) > seg.n
                        /\ HasKey(current, IntKey(seg.n))
                THEN LET sub == SetAtSegments(DictGet(current, IntKey(seg.n)),
                                              Tail(segments), value)
                     IN  IF sub = ErrV THEN ErrV
                         ELSE DictSet(current, IntKey(seg.n), sub)
                ELSE ErrV
           ELSE IF IsDict(current)
                THEN LET child == IF HasKey(current, seg.s)
                                  THEN DictGet(current, seg.s) ELSE EmptyDict
                         sub == SetAtSegments(child, Tail(segments), value)
                     IN  IF sub = ErrV THEN ErrV
                         ELSE DictSet(current, seg.s, sub)
                ELSE ErrV

_set_at_path(obj, path, value) ==
  LET segments == _parse_path(path)
  IN  IF segments = <<>> \/ segments = << BadSeg >> THEN ErrV
      ELSE SetAtSegments(obj, segments, value)

\* _delete_at_path inside its try block: KeyError, IndexError and TypeError
\* leave the tree as it is
RECURSIVE DeleteAtSegments(_, _)
DeleteAtSegments(current, segments) ==
  IF segments = <<>> THEN current
  ELSE LET seg == Head(segments)
       IN  IF Len(segments) = 1
           THEN IF seg.t = "int" /\ IsList(current)
                THEN IF seg.n < Len(current.items)
                     THEN [current EXCEPT !.items =
                             SubSeq(@, 1, seg.n) \o SubSeq(@, seg.n + 2, Len(@))]
                     ELSE current
                ELSE IF IsDict(current) /\ HasKey(current, SegKey(seg))
                THEN DictDel(current, SegKey(seg))
                ELSE current
           ELSE IF IsList(current) /\ seg.t = "int" /\ seg.n < Len(current.items)
                THEN [current EXCEPT !.items[seg.n + 1] =
                        DeleteAtSegments(@, Tail(segments))]
                ELSE IF IsDict(current) /\ HasKey(current, SegKey(seg))
                THEN DictSet(current, SegKey(seg),
                             DeleteAtSegments(DictGet(current, SegKey(seg)),
                                              Tail(segments)))
                ELSE current

\* the parse is outside the try block: a failed int() raises
_delete_at_path(obj, path) ==
  LET segments == _parse_path(path)
  IN  IF segments = << BadSeg >> THEN ErrV
      ELSE DeleteAtSegments(obj, segments)

\* Object identity.  A dict or list object carries in its field s who created
\* it: "" for an object created during the call that is modelled, any other
\* tag for an object the caller holds.  Two containers with different tags are
\* different objects; a container found in a result with a caller's tag is
\* that caller's object, so that mutating the one mutates the other.
IsContainer(obj) == obj.k \in {"dict", "list"}

\* the value `obj` as objects the caller `owner` created
RECURSIVE OwnedBy(_, _)
OwnedBy(obj, owner) ==
  IF IsContainer(obj)
  THEN [obj EXCEPT !.s = owner,
                   !.items = [i \in 1..Len(obj.items) |-> OwnedBy(obj.items[i], owner)]]
  ELSE obj

\* the creators of the containers of a value
RECURSIVE Owners(_)
Owners(obj) ==
  IF IsContainer(obj)
  THEN {obj.s} \cup UNION {Owners(obj.items[i]) : i \in 1..Len(obj.items)}
  ELSE {}

\* a copy whose top container is new and whose items are the original's objects
deepcopy_shallow(obj) == IF IsContainer(obj) THEN [obj EXCEPT !.s = ""] ELSE obj

\* copy.deepcopy: every container of the copy is a new object
RECURSIVE deepcopy(_)
deepcopy(obj) ==
  IF IsContainer(obj)
  THEN [obj EXCEPT !.s = "",
                   !.items = [i \in 1..Len(obj.items) |-> deepcopy(obj.items[i])]]
  ELSE obj

\* "for entry in reversed(diff.removed)": entries is already reversed
RECURSIVE ApplyRemovals(_, _)
ApplyRemovals(result, entries) ==
  IF entries = <<>> \/ result = ErrV THEN result
  ELSE ApplyRemovals(_delete_at_path(result, Head(entries).path), Tail(entries))

\* "for entry in diff.added"
RECURSIVE ApplyAdditions(_, _)
ApplyAdditions(result, entries) ==
  IF entries = <<>> \/ result = ErrV THEN result
  ELSE ApplyAdditions(_set_at_path(result, Head(entries).path,
                                   deepcopy(Head(entries).value)),
                      Tail(entries))

\* whether apply_diff skips a changed entry
IsSynthetic(path) == EndsWith(path, DotLength)

\* "for entry in diff.changed"
RECURSIVE ApplyChanges(_, _)
ApplyChanges(result, entries) ==
  IF entries = <<>> \/ result = ErrV THEN result
  ELSE IF IsSynthetic(Head(entries).path)
  THEN ApplyChanges(result, Tail(entries))
  ELSE ApplyChanges(_set_at_path(result, Head(entries).path,
                                 deepcopy(Head(entries).new_value)),
                    Tail(entries))

\* "result = copy.deepcopy(state)", then the three loops on result
apply_diff(state, diff) ==
  ApplyChanges(ApplyAdditions(ApplyRemovals(deepcopy(state), Reverse(diff.removed)),
                              diff.added),
               diff.changed)

(***************************************************************************)
(* core/serialization.py: serialize_state.  Its arguments are Python       *)
(* values of any kind; besides the kinds of a serialized tree the model    *)
(* has the float nan, tuples and Enum members.                             *)
(***************************************************************************)
\* float("nan"): a float that is not finite and differs from itself
NanV == [k |-> "nan", n |-> 0, s |-> "", keys |-> <<>>, items |-> <<>>]

TupleV(elems) == [k |-> "tuple", n |-> 0, s |-> "", keys |-> <<>>, items |-> elems]

\* a member of an Enum class whose .value is `value`
EnumV(value) == [k |-> "enum", n |-> 0, s |-> "", keys |-> <<>>, items |-> << value >>]

\* primitives and str pass through; a dict is rebuilt with str keys and
\* serialized values, a list or tuple becomes a list of serialized items, an
\* Enum member becomes its .value as it is ("return state.value")
RECURSIVE serialize_state(_)
serialize_state(state) ==
  IF state.k \in {"null", "int", "nan", "str"} THEN state
  ELSE IF state.k = "dict"
  THEN DictV(state.keys,
             [i \in 1..Len(state.items) |-> serialize_state(state.items[i])])
  ELSE IF state.k \in {"list", "tuple"}
  THEN ListV([i \in 1..Len(state.items) |-> serialize_state(state.items[i])])
  ELSE IF state.k = "enum" THEN state.items[1]
  ELSE ErrV

\* Python's ==, for two values of which the second was built from the first
\* by serialize_state: nan differs from itself; containers compare their
\* items by identity first, so two containers of equal structure holding the
\* same float objects are equal
PyEqual(a, b) == a = b /\ a.k # "nan"

\* a serialized tree: null, a finite number, a string, a list of trees, or a
\* string-keyed mapping of trees (the keys of the model are strings)
RECURSIVE IsTree(_)
IsTree(v) ==
  \/ v.k \in {"null", "int", "str"}
  \/ /\ v.k \in {"list", "dict"}
     /\ \A i \in 1..Len(v.items) : IsTree(v.items[i])

\* no serialize_state call made
SerIdle == [pc |-> "idle", value |-> NullV, once |-> NullV, twice |-> NullV]

(***************************************************************************)
(* State.                                                                  *)
(***************************************************************************)
VARIABLES
  \* a compute_diff / apply_diff call pair (SpecDiff)
  dpc,          \* "start" | "diffed" | "applied"
  t_in,         \* the tree `before` / `state`
  u_in,         \* the tree `after`
  ign_in,       \* ignore_keys
  d_out,        \* the StateDiff compute_diff returned
  r_out,        \* the tree apply_diff returned
  \* serialize_state applied to a value and to its own result (SpecSer):
  \* [pc, value, once, twice], pc is "idle" | "start" | "once" | "twice"
  ser

VARIABLES
  \* DebugConfig (core/config.py): [enabled, checkpoint_interval, ignore_keys]
  config,
  \* storage: the executions table, execution_id -> row (present = FALSE: no row)
  executions,
  \* storage: the steps table, its rows in insertion (rowid) order
  steps,
  \* DebugCollector._step_counters: execution_id -> counter, -1 where the
  \* dict has no entry
  counters,
  \* DebugCollector._lock: the task holding it, 0 when free
  lock,
  \* the coroutines in flight: task -> [pc, id, step, exec]
  tasks,
  \* history: the record_step calls in the order of their index allocation
  calls,
  \* history: how many calls of the collector were made
  nOps,
  \* the callers and the storage backend: [ntasks, ids, inputs, initials,
  \* backend, extra], fixed by the initial state; extra is the number of calls
  \* the callers make beyond MaxOps
  env,
  \* history: the latest call of the collector that came back to its caller
  \* (see NoCall)
  last,
  \* adapters/langgraph.py: the process-wide collector reference and the
  \* wrapper invocation in progress (see WrapIdle)
  wrap,
  \* storage: the routing_decisions table, its rows in insertion order:
  \* [step_id, execution_id]
  routing

diffVars == << dpc, t_in, u_in, ign_in, d_out, r_out, ser >>

collVars ==
  << config, executions, steps, counters, lock, tasks, calls, nOps, env, last >>

vars == << diffVars, collVars, wrap, routing >>

(***************************************************************************)
(* The trees the diff engine is exercised on.                              *)
(***************************************************************************)
KeyA == << "a" >>

KeyX == << "x" >>

KeyTs == << "t", "s" >>

KeyLength == << "l", "e", "n", "g", "t", "h" >>

Scalars == {IntV(i) : i \in 1..MaxVal}

\* lists of scalars up to MaxLen, and two lists of mappings
ListTrees ==
  {ListV(q) : q \in UNION {[1..n -> Scalars] : n \in 0..MaxLen}}
    \cup {ListV(<< DictV(<< KeyA >>, << IntV(1) >>) >>),
          ListV(<< DictV(<< KeyA >>, << IntV(2) >>), IntV(1) >>)}

\* mappings over the keys "a" and "length" with scalar values
InnerDicts ==
  {EmptyDict}
    \cup {DictV(<< key >>, << v >>) : key \in {KeyA, KeyLength}, v \in Scalars}
    \cup {DictV(<< KeyA, KeyLength >>, << v, w >>) : v \in Scalars, w \in Scalars}

InnerTrees == Scalars \cup ListTrees \cup InnerDicts

\* top-level mappings: "x" (optional) over InnerTrees, "ts" (optional) over 1, 2
TopTrees ==
  {EmptyDict}
    \cup {DictV(<< KeyX >>, << v >>) : v \in InnerTrees}
    \cup {DictV(<< KeyTs >>, << w >>) : w \in {IntV(1), IntV(2)}}
    \cup {DictV(<< KeyTs, KeyX >>, << w, v >>) : w \in {IntV(1), IntV(2)}, v \in InnerTrees}

IgnoreChoices == {{}, {KeyTs}}

(***************************************************************************)
(* Storage rows and the collector's state.                                 *)
(***************************************************************************)
ExecIds == {"e1", "e2"}

Tasks == {1, 2}

\* Optional[str]: <<>> is None, << s >> is the str s
NoneStr == <<>>

Some(str) == << str >>

\* a row of the executions table; final_state NullV is SQL NULL
NoExec ==
  [present |-> FALSE, status |-> "running", initial_state |-> EmptyDict,
   final_state |-> NullV, step_count |-> 0, ended |-> FALSE]

\* a row of the steps table; state_before / state_after NullV is SQL NULL
NoStep ==
  [step_id |-> 0, execution_id |-> "", step_index |-> 0, status |-> "running",
   state_before |-> NullV, state_after |-> NullV, state_diff |-> StateDiff,
   is_checkpoint |-> FALSE, error |-> NoneStr]

IdleTask == [pc |-> "idle", id |-> "", step |-> NoStep, exec |-> NoExec]

\* no call has come back yet
\*   op       start_execution | record_step | end_execution
\*   id       its execution_id
\*   existed  the executions table held a row for id when the call reached
\*            the storage
\*   error    the exception the caller got, "" if the call returned
NoCall == [op |-> "", id |-> "", existed |-> FALSE, error |-> ""]

\* the callers of the diff engine and of the wrapper make no collector call
NoCallers ==
  [ntasks |-> 0, ids |-> {}, inputs |-> {}, initials |-> {}, backend |-> "async", extra |-> 0]

\* what the host has observed of a wrapper invocation: nothing yet, a
\* returned value, or a raised exception (value = its message)
NoOutcome == [kind |-> "none", value |-> NullV]

\* no collector installed (get_collector() is None), no invocation in progress
\*   pc           idle | passthrough | try | done
\*   collector    a DebugCollector has been installed with set_collector
\*   kind         sync | async: which of the two node wrappers fn was given;
\*                edge: the routing-predicate wrapper
\*   state        the state the wrapper was invoked with
\*   node         what fn (or the predicate) does on that state: return a
\*                value or raise
\*   state_before the wrapper's copy of the state
\*   node_calls   times fn was called in this invocation
\*   failed       the recording machinery raised in this invocation
\*   outcome      what the host observed
\*   coroutines   record_step coroutine objects created so far; none of them
\*                is awaited or scheduled
\*   last_call    the arguments of the latest record_step call
\*   invocations  wrapper invocations so far
\*   current_id   the execution id held by _execution_tracker ("" = unset)
\*   config_id    kwargs["config"]["configurable"]["lgdebug_execution_id"] of
\*                the invocation ("" = not supplied)
\*   state_id     state["__lgdebug_execution_id"] of the invocation ("" = the
\*                state has no such key)
\*   execution_id the id the invocation resolved
\*   collector_id which DebugCollector object _collector refers to (0 = None,
\*                t = the one constructed by caller t of enable_debugging)
\*   read         the object get_collector() returned to the latest node
\*                wrapper invocation
\*   enabling     the position of each caller of enable_debugging: "idle"
\*                before the call, "create" between get_collector()
\*                returning None and set_collector, "done" after the call
WrapIdle ==
  [pc |-> "idle", collector |-> FALSE, kind |-> "sync", state |-> NullV,
   node |-> NoOutcome, state_before |-> NullV, node_calls |-> 0,
   failed |-> FALSE, outcome |-> NoOutcome, coroutines |-> 0,
   last_call |-> [execution_id |-> "", state_before |-> NullV,
                  state_after |-> NullV, error |-> NoneStr],
   invocations |-> 0, current_id |-> "", config_id |-> "", state_id |-> "",
   execution_id |-> "", collector_id |-> 0, read |-> 0,
   enabling |-> [t \in {1, 2} |-> "idle"]]

\* the collector and the storage right after construction / initialize()
CollIdle ==
  /\ wrap = WrapIdle
  /\ routing = <<>>
  /\ config = [enabled |-> TRUE, checkpoint_interval |-> 1, ignore_keys |-> {}]
  /\ executions = [id \in ExecIds |-> NoExec]
  /\ steps = <<>>
  /\ counters = [id \in ExecIds |-> -1]
  /\ lock = 0
  /\ tasks = [p \in Tasks |-> IdleTask]
  /\ calls = <<>>
  /\ nOps = 0
  /\ env = NoCallers
  /\ last = NoCall

\* the steps-table rows (positions in `steps`) of one execution
RowsOf(execution_id) ==
  {r \in 1..Len(steps) : steps[r].execution_id = execution_id}

\* one counter read by every execution: the number of indices allocated so far
CounterGet_shared(execution_id) == Len(calls)

\* a numbering that also counts the routing decisions stored so far
CounterGet_routed(execution_id) ==
  (IF counters[execution_id] = -1 THEN 0 ELSE counters[execution_id])
    + Len(routing)

\* self._step_counters.get(execution_id, 0)
CounterGet(execution_id) ==
  IF counters[execution_id] = -1 THEN 0 ELSE counters[execution_id]

(***************************************************************************)
(* SpecDiff: compute_diff(t, u, ignore_keys) followed by apply_diff(t, d). *)
(***************************************************************************)
DiffInit ==
  /\ dpc = "start"
  /\ t_in \in TopTrees
  /\ u_in \in TopTrees
  /\ ign_in \in IgnoreChoices
  /\ d_out = StateDiff
  /\ r_out = NullV
  /\ ser = SerIdle
  /\ CollIdle

ComputeDiff ==
  /\ dpc = "start"
  /\ d_out' = compute_diff(t_in, u_in, ign_in)
  /\ dpc' = "diffed"
  /\ UNCHANGED << t_in, u_in, ign_in, r_out, ser, collVars, wrap, routing >>

ApplyDiff ==
  /\ dpc = "diffed"
  /\ r_out' = apply_diff(t_in, d_out)
  /\ dpc' = "applied"
  /\ UNCHANGED << t_in, u_in, ign_in, d_out, ser, collVars, wrap, routing >>

DiffNext == ComputeDiff \/ ApplyDiff

SpecDiff == DiffInit /\ [][DiffNext]_vars

\* C3: for all trees t, u with a string-keyed mapping at the top,
\* apply_diff(t, compute_diff(t, u)) equals u (compute_diff without ignore_keys).
C3_RoundTrip ==
  (dpc = "applied" /\ ign_in = {}) => r_out = u_in

(***************************************************************************)
(* SpecSer: serialize_state(v) followed by serialize_state of the result.  *)
(***************************************************************************)
\* values that are not containers of other values of the universe, or are
\* Enum members
SerAtoms ==
  {NullV, IntV(1), StrV("s"), NanV,
   TupleV(<< IntV(1), IntV(2) >>),
   ListV(<< IntV(1) >>),
   DictV(<< KeyX >>, << IntV(1) >>),
   EnumV(IntV(1)), EnumV(TupleV(<< IntV(1) >>)), EnumV(NanV),
   EnumV(EnumV(IntV(1)))}

\* the values serialize_state is called with
SerInputs ==
  SerAtoms
    \cup {ListV(<< a >>) : a \in SerAtoms}
    \cup {TupleV(<< a >>) : a \in SerAtoms}
    \cup {DictV(<< KeyX >>, << a >>) : a \in SerAtoms}

SerInit ==
  /\ ser \in [pc : {"start"}, value : SerInputs, once : {NullV}, twice : {NullV}]
  /\ dpc = "start"
  /\ t_in = EmptyDict
  /\ u_in = EmptyDict
  /\ ign_in = {}
  /\ d_out = StateDiff
  /\ r_out = NullV
  /\ CollIdle

SerializeOnce ==
  /\ ser.pc = "start"
  /\ ser' = [ser EXCEPT !.pc = "once", !.once = serialize_state(ser.value)]
  /\ UNCHANGED << dpc, t_in, u_in, ign_in, d_out, r_out, collVars, wrap, routing >>

SerializeTwice ==
  /\ ser.pc = "once"
  /\ ser' = [ser EXCEPT !.pc = "twice", !.twice = serialize_state(ser.once)]
  /\ UNCHANGED << dpc, t_in, u_in, ign_in, d_out, r_out, collVars, wrap, routing >>

SpecSer == SerInit /\ [][SerializeOnce \/ SerializeTwice]_vars

(***************************************************************************)
(* SpecSame: compute_diff(t, t) and apply_diff(t, .) on the serialization  *)
(* of a state, as record_step computes its diff.                           *)
(***************************************************************************)
\* the states that are serialized: the mappings of SpecDiff, and mappings
\* holding a float nan
SameInputs ==
  TopTrees \cup {DictV(<< KeyX >>, << NanV >>),
                 DictV(<< KeyX >>, << ListV(<< NanV >>) >>),
                 DictV(<< KeyX >>, << EnumV(NanV) >>)}

SameInit ==
  /\ dpc = "start"
  /\ \E v \in SameInputs : t_in = serialize_state(v)
  /\ u_in = t_in
  /\ ign_in \in IgnoreChoices
  /\ d_out = StateDiff
  /\ r_out = NullV
  /\ ser = SerIdle
  /\ CollIdle

SpecSame == SameInit /\ [][DiffNext]_vars

(***************************************************************************)
(* SpecAlias: compute_diff and apply_diff on trees whose containers are    *)
(* the caller's objects.  The entries of the StateDiff hold the objects of *)
(* `before` and `after` themselves (diff.py appends before[key] and        *)
(* after[key]).                                                            *)
(***************************************************************************)
AliasInit ==
  /\ dpc = "start"
  /\ \E t \in TopTrees : t_in = OwnedBy(t, "base")
  /\ \E u \in TopTrees : u_in = OwnedBy(u, "after")
  /\ ign_in = {}
  /\ d_out = StateDiff
  /\ r_out = NullV
  /\ ser = SerIdle
  /\ CollIdle

SpecAlias == AliasInit /\ [][DiffNext]_vars

(***************************************************************************)
(* SpecAdd: apply_diff of a StateDiff that holds added entries only, on a  *)
(* base that need not hold the containers the entries address.             *)
(***************************************************************************)
\* added entries at "x.a", "x[0]", "x[1]", "x[1].a", or two at "ts"
AddInit ==
  /\ dpc = "diffed"
  /\ t_in \in TopTrees
  /\ u_in = t_in
  /\ ign_in = {}
  /\ \E entries \in
         {<< [path |-> path, value |-> IntV(1)] >> :
            path \in {_join_path(KeyX, KeyA), ItemPath(KeyX, 0), ItemPath(KeyX, 1),
                      _join_path(ItemPath(KeyX, 1), KeyA)}}
           \cup {<< [path |-> KeyTs, value |-> IntV(1)],
                    [path |-> KeyTs, value |-> IntV(2)] >>} :
       d_out = [StateDiff EXCEPT !.added = entries]
  /\ r_out = NullV
  /\ ser = SerIdle
  /\ CollIdle

SpecAdd == AddInit /\ [][ApplyDiff]_vars

(***************************************************************************)
(* SpecIgnore: compute_diff with ignore_keys on states whose keys include  *)
(* the empty string.  A dict key is any str, and str(k) of serialize_state *)
(* keeps "" as it is.                                                      *)
(***************************************************************************)
\* a mapping under the key "" or "x", holding the key "ts"
IgnoreInputs ==
  TopTrees \cup {DictV(<< key >>, << DictV(<< KeyTs >>, << w >>) >>) :
                   key \in {<< >>, KeyX}, w \in {IntV(1), IntV(2)}}

\* the state without its top-level keys that are in ignore_keys
RECURSIVE WithoutKeys(_, _)
WithoutKeys(state, ignore_keys) ==
  IF state.keys = <<>> THEN state
  ELSE LET first == Head(state.keys)
           rest  == WithoutKeys(DictV(Tail(state.keys), Tail(state.items)), ignore_keys)
       IN  IF first \in ignore_keys THEN rest
           ELSE DictV(<< first >> \o rest.keys, << Head(state.items) >> \o rest.items)

IgnoreInit ==
  /\ dpc = "start"
  /\ t_in \in IgnoreInputs
  /\ u_in \in IgnoreInputs
  /\ ign_in \in IgnoreChoices
  /\ d_out = StateDiff
  /\ r_out = NullV
  /\ ser = SerIdle
  /\ CollIdle

SpecIgnore == IgnoreInit /\ [][DiffNext]_vars

(***************************************************************************)
(* core/collector.py and storage/sqlite.py.                                *)
(*                                                                         *)
(* The collector's methods are coroutines on one event loop: a coroutine   *)
(* runs until it awaits something that suspends it, and another coroutine  *)
(* may run in between.  Every await of a storage method is such a point    *)
(* (StorageBackend, storage/base.py, is an abstract asynchronous           *)
(* interface); an uncontended "async with self._lock" is not.  An action   *)
(* below is the code between two such points.  The interface does not say  *)
(* in which order two storage calls in progress complete, so either may    *)
(* complete first.                                                         *)
(*                                                                         *)
(* The states handed to the collector are serialized trees already:        *)
(* safe_deepcopy and serialize_state return a tree equal to their argument *)
(* on them.                                                                *)
(***************************************************************************)
\* the states the callers pass: "ts" is a volatile key, "x" holds a mapping
\* with a key named "length"
StateA == DictV(<< KeyTs, KeyX >>, << IntV(1), DictV(<< KeyLength >>, << IntV(1) >>) >>)

StateB == DictV(<< KeyTs, KeyX >>, << IntV(2), DictV(<< KeyLength >>, << IntV(1) >>) >>)

StateC == DictV(<< KeyTs, KeyX >>, << IntV(1), DictV(<< KeyLength >>, << IntV(2) >>) >>)

StateD == DictV(<< KeyX >>, << ListV(<< IntV(1) >>) >>)

\* the (state_before, state_after, error) triples record_step is called with:
\* a change of the volatile key, a change of the key named "length", a failed
\* node (state_after = state_before, error set), a change of type
StepInputs ==
  {[state_before |-> StateA, state_after |-> StateB, error |-> NoneStr],
   [state_before |-> StateA, state_after |-> StateC, error |-> NoneStr],
   [state_before |-> StateA, state_after |-> StateA, error |-> Some("boom")],
   [state_before |-> StateB, state_after |-> StateD, error |-> NoneStr]}

\* the initial states start_execution is called with
InitialStates == {StateA}

\* the (final_state, status) pairs end_execution is called with
EndInputs ==
  {[final_state |-> StateB, status |-> "completed"],
   [final_state |-> EmptyDict, status |-> "failed"]}

\* a new call runs as the first task that is free (tasks are interchangeable)
FreeTask(p) ==
  /\ p <= env.ntasks
  /\ tasks[p].pc = "idle"
  /\ \A q \in Tasks : q < p => tasks[q].pc # "idle"

\* the collector and the storage after construction, for the callers `e`
CollInit(e) ==
  /\ config \in [enabled : {TRUE},
                 checkpoint_interval : 1..MaxInterval,
                 ignore_keys : IgnoreChoices]
  /\ executions = [id \in ExecIds |-> NoExec]
  /\ steps = <<>>
  /\ counters = [id \in ExecIds |-> -1]
  /\ lock = 0
  /\ tasks = [p \in Tasks |-> IdleTask]
  /\ calls = <<>>
  /\ nOps = 0
  /\ env = e
  /\ last = NoCall
  /\ wrap = WrapIdle
  /\ routing = <<>>
  /\ dpc = "start"
  /\ t_in = EmptyDict
  /\ u_in = EmptyDict
  /\ ign_in = {}
  /\ d_out = StateDiff
  /\ r_out = NullV
  /\ ser = SerIdle

\* the Execution start_execution builds
NewExecution(initial_state) ==
  [NoExec EXCEPT !.present = TRUE, !.initial_state = initial_state]

\* start_execution.  On SQLiteStorage, up to its await of save_execution: the
\* lock is taken, the counter zeroed, and the coroutine is suspended in the
\* storage call.  On SyncSQLiteStorage nothing suspends: save_execution runs
\* (INSERT OR REPLACE: the row of the id is replaced), returns None, and
\* "await None" raises TypeError, which leaves the "async with" block and
\* releases the lock
StartExecution(p, execution_id, initial_state) ==
  /\ FreeTask(p)
  /\ nOps < MaxOps + env.extra
  /\ lock = 0
  /\ counters' = [counters EXCEPT ![execution_id] = 0]
  /\ nOps' = nOps + 1
  /\ IF env.backend = "sync"
     THEN /\ executions' =
               [executions EXCEPT ![execution_id] = NewExecution(initial_state)]
          /\ last' = [op |-> "start_execution", id |-> execution_id,
                      existed |-> executions[execution_id].present,
                      error |-> "TypeError"]
          /\ UNCHANGED << lock, tasks >>
     ELSE /\ lock' = p
          /\ tasks' = [tasks EXCEPT ![p] =
               [pc |-> "start_save", id |-> execution_id, step |-> NoStep,
                exec |-> NewExecution(initial_state)]]
          /\ UNCHANGED << executions, last >>
  /\ UNCHANGED << config, steps, calls, env, diffVars, wrap, routing >>

\* SQLiteStorage.save_execution: a plain INSERT, which fails on an
\* execution_id that has a row (PRIMARY KEY); either way the lock is released
\* as the "async with" block is left
SaveExecution(p) ==
  /\ tasks[p].pc = "start_save"
  /\ executions' =
       IF executions[tasks[p].id].present THEN executions
       ELSE [executions EXCEPT ![tasks[p].id] = tasks[p].exec]
  /\ last' = [op |-> "start_execution", id |-> tasks[p].id,
              existed |-> executions[tasks[p].id].present,
              error |-> IF executions[tasks[p].id].present
                        THEN "IntegrityError" ELSE ""]
  /\ lock' = 0
  /\ tasks' = [tasks EXCEPT ![p] = IdleTask]
  /\ UNCHANGED << config, steps, counters, calls, nOps, env, diffVars, wrap, routing >>

\* a rule that snapshots the first step only
IsCheckpoint_first(step_index) == step_index = 0

\* is_checkpoint of record_step.  Python's "%" with a negative divisor is 0
\* exactly when the divisor's magnitude divides; with divisor 0 it raises, which
\* record_step's caller sees (RecordStep), so that case has no value here
IsCheckpoint(step_index) ==
  IF config.checkpoint_interval > 0
  THEN (step_index % config.checkpoint_interval = 0) \/ step_index = 0
  ELSE IF config.checkpoint_interval < 0
  THEN (step_index % (0 - config.checkpoint_interval) = 0) \/ step_index = 0
  ELSE FALSE

\* "StepStatus.FAILED if error else StepStatus.COMPLETED": None and "" are falsy
StatusOf(error) ==
  IF error # NoneStr /\ error # Some("") THEN "failed" ELSE "completed"

\* a step that carries both full states whether it is a checkpoint or not
NewStep_full(execution_id, step_index, state_before, state_after, error) ==
  [step_id |-> Len(calls) + 1,
   execution_id |-> execution_id,
   step_index |-> step_index,
   status |-> StatusOf(error),
   state_before |-> state_before,
   state_after |-> state_after,
   state_diff |-> compute_diff(state_before, state_after, config.ignore_keys),
   is_checkpoint |-> IsCheckpoint(step_index),
   error |-> error]

\* the ExecutionStep record_step builds for the index it allocated
NewStep(execution_id, step_index, state_before, state_after, error) ==
  [step_id |-> Len(calls) + 1,
   execution_id |-> execution_id,
   step_index |-> step_index,
   status |-> StatusOf(error),
   state_before |-> IF IsCheckpoint(step_index) THEN state_before ELSE NullV,
   state_after |-> IF IsCheckpoint(step_index) THEN state_after ELSE NullV,
   state_diff |-> compute_diff(state_before, state_after, config.ignore_keys),
   is_checkpoint |-> IsCheckpoint(step_index),
   error |-> error]

\* an insert that overwrites the row of the same step_id (INSERT OR REPLACE)
InsertStep_replace(rows, step) ==
  IF \E r \in 1..Len(rows) : rows[r].step_id = step.step_id
  THEN [r \in 1..Len(rows) |->
          IF rows[r].step_id = step.step_id THEN step ELSE rows[r]]
  ELSE Append(rows, step)

\* INSERT INTO steps: a row whose step_id is in the table is rejected
\* (PRIMARY KEY), any other row is appended; no foreign key is enforced
\* (PRAGMA foreign_keys is never set)
InsertStep(rows, step) ==
  IF \E r \in 1..Len(rows) : rows[r].step_id = step.step_id THEN rows
  ELSE Append(rows, step)

\* the exception of that INSERT
InsertError(rows, step) ==
  IF \E r \in 1..Len(rows) : rows[r].step_id = step.step_id
  THEN "IntegrityError" ELSE ""

\* record_step.  On SQLiteStorage, up to its await of save_step: serialize,
\* diff, allocate the index under the lock, release the lock, build the step.
\* On SyncSQLiteStorage save_step runs at once and "await None" raises
\* TypeError.  With checkpoint_interval = 0 the "%" of the is_checkpoint line
\* raises ZeroDivisionError after the index was allocated, on either backend
RecordStep(p, execution_id, state_before, state_after, error) ==
  /\ FreeTask(p)
  /\ nOps < MaxOps + env.extra
  /\ lock = 0
  /\ counters' = [counters EXCEPT ![execution_id] = CounterGet(execution_id) + 1]
  /\ calls' = Append(calls,
       [execution_id |-> execution_id, step_index |-> CounterGet(execution_id),
        state_before |-> state_before, state_after |-> state_after,
        error |-> error])
  /\ nOps' = nOps + 1
  /\ LET step == NewStep(execution_id, CounterGet(execution_id),
                         state_before, state_after, error)
     IN  IF config.checkpoint_interval = 0
         THEN /\ last' = [op |-> "record_step", id |-> execution_id,
                          existed |-> executions[execution_id].present,
                          error |-> "ZeroDivisionError"]
              /\ UNCHANGED << steps, tasks >>
         ELSE IF env.backend = "sync"
         THEN /\ steps' = InsertStep(steps, step)
              /\ last' = [op |-> "record_step", id |-> execution_id,
                          existed |-> executions[execution_id].present,
                          error |-> IF InsertError(steps, step) # ""
                                    THEN InsertError(steps, step)
                                    ELSE "TypeError"]
              /\ UNCHANGED tasks
         ELSE /\ tasks' = [tasks EXCEPT ![p] =
                   [pc |-> "rec_save", id |-> execution_id, exec |-> NoExec,
                    step |-> step]]
              /\ UNCHANGED << steps, last >>
  /\ UNCHANGED << config, executions, lock, env, diffVars, wrap, routing >>

\* SQLiteStorage.save_step: INSERT INTO steps and commit
SaveStep(p) ==
  /\ tasks[p].pc = "rec_save"
  /\ steps' = InsertStep(steps, tasks[p].step)
  /\ last' = [op |-> "record_step", id |-> tasks[p].id,
              existed |-> executions[tasks[p].id].present,
              error |-> InsertError(steps, tasks[p].step)]
  /\ tasks' = [tasks EXCEPT ![p] = IdleTask]
  /\ UNCHANGED << config, executions, counters, lock, calls, nOps, env, diffVars, wrap, routing >>

\* the Execution that end_execution read, with the fields it assigns
EndFields(row, final_state, status, step_count) ==
  [row EXCEPT !.ended = TRUE,
              !.status = status,
              !.final_state = final_state,
              !.step_count = step_count]

\* the columns update_execution writes; "json.dumps(final_state) if
\* execution.final_state else None" stores NULL for an empty mapping
TailOf(row, final_state, status, step_count) ==
  [row EXCEPT !.ended = TRUE,
              !.status = status,
              !.final_state = IF final_state = EmptyDict THEN NullV ELSE final_state,
              !.step_count = step_count]

\* end_execution from the completion of its await of get_execution: an unknown
\* id returns; otherwise the fields are set and step_count is read under the
\* lock if the lock is free, and the coroutine waits for the lock if not.  On
\* SyncSQLiteStorage get_execution returns an Execution or None, and awaiting
\* either raises TypeError before anything is written
EndExecution(p, execution_id, final_state, status) ==
  /\ FreeTask(p)
  /\ nOps < MaxOps + env.extra
  /\ nOps' = nOps + 1
  /\ IF env.backend = "sync"
     THEN /\ last' = [op |-> "end_execution", id |-> execution_id,
                      existed |-> executions[execution_id].present,
                      error |-> "TypeError"]
          /\ UNCHANGED tasks
     ELSE IF ~executions[execution_id].present
     THEN /\ last' = [op |-> "end_execution", id |-> execution_id,
                      existed |-> FALSE, error |-> ""]
          /\ UNCHANGED tasks
     ELSE /\ tasks' = [tasks EXCEPT ![p] =
               [pc |-> IF lock = 0 THEN "end_update" ELSE "end_lock",
                id |-> execution_id, step |-> NoStep,
                exec |-> EndFields(executions[execution_id], final_state, status,
                                   CounterGet(execution_id))]]
          /\ UNCHANGED last
  /\ UNCHANGED << config, executions, steps, counters, lock, calls, env, diffVars, wrap, routing >>

\* end_execution acquiring the lock it had to wait for: step_count is read now
EndLock(p) ==
  /\ tasks[p].pc = "end_lock"
  /\ lock = 0
  /\ tasks' = [tasks EXCEPT ![p].pc = "end_update",
                            ![p].exec.step_count = CounterGet(tasks[p].id)]
  /\ UNCHANGED << config, executions, steps, counters, lock, calls, nOps, env,
                  last, diffVars, wrap, routing >>

\* SQLiteStorage.update_execution: UPDATE ... WHERE execution_id = ?
UpdateExecution(p) ==
  /\ tasks[p].pc = "end_update"
  /\ executions' = [executions EXCEPT ![tasks[p].id] =
       IF @.present
       THEN TailOf(@, tasks[p].exec.final_state, tasks[p].exec.status,
                   tasks[p].exec.step_count)
       ELSE @]
  /\ last' = [op |-> "end_execution", id |-> tasks[p].id,
              existed |-> executions[tasks[p].id].present, error |-> ""]
  /\ tasks' = [tasks EXCEPT ![p] = IdleTask]
  /\ UNCHANGED << config, steps, counters, lock, calls, nOps, env, diffVars, wrap, routing >>

Next ==
  \/ \E p \in Tasks, id \in env.ids, st \in env.initials :
       StartExecution(p, id, st)
  \/ \E p \in Tasks : SaveExecution(p)
  \/ \E p \in Tasks, id \in env.ids, in \in env.inputs :
       RecordStep(p, id, in.state_before, in.state_after, in.error)
  \/ \E p \in Tasks : SaveStep(p)
  \/ \E p \in Tasks, id \in env.ids, in \in EndInputs :
       EndExecution(p, id, in.final_state, in.status)
  \/ \E p \in Tasks : EndLock(p)
  \/ \E p \in Tasks : UpdateExecution(p)

\* Spec: up to two calls in progress at a time, one execution, every kind of
\* step input, the asynchronous backend
Spec ==
  CollInit([ntasks |-> 2, ids |-> {"e1"}, inputs |-> StepInputs,
            initials |-> InitialStates, backend |-> "async", extra |-> 0])
    /\ [][Next]_vars

\* the step input of the concurrent callers
PlainInputs ==
  {[state_before |-> StateA, state_after |-> StateB, error |-> NoneStr]}

\* SpecConc: two concurrent callers, two executions, one kind of step input
SpecConc ==
  CollInit([ntasks |-> 2, ids |-> ExecIds, inputs |-> PlainInputs,
            initials |-> InitialStates, backend |-> "async", extra |-> 0])
    /\ [][Next]_vars

\* the step inputs of SpecStore: a step without error, and a failed node
\* whose exception has no message (str(ValueError()) is "")
StoreInputs ==
  {[state_before |-> StateA, state_after |-> StateB, error |-> NoneStr],
   [state_before |-> StateA, state_after |-> StateA, error |-> Some("")]}

\* storage.save_step called once more with the step_id of a stored row and
\* other field values
ResaveStep(r) ==
  /\ r \in 1..Len(steps)
  /\ steps' = InsertStep(steps, [steps[r] EXCEPT !.status = "running",
                                                 !.state_after = NullV])
  /\ last' = [op |-> "save_step", id |-> steps[r].execution_id,
              existed |-> executions[steps[r].execution_id].present,
              error |-> InsertError(steps, steps[r])]
  /\ UNCHANGED << config, executions, counters, lock, tasks, calls, nOps, env,
                  diffVars, wrap, routing >>

\* SpecStore: one execution recorded on either backend, started from either
\* of two initial states, nothing ignored by the diff
StoreInit ==
  \E backend \in {"async", "sync"} :
    /\ CollInit([ntasks |-> 2, ids |-> {"e1"}, inputs |-> StoreInputs,
                 initials |-> {StateA, StateB}, backend |-> backend, extra |-> 0])
    /\ config.ignore_keys = {}

SpecStore == StoreInit /\ [][Next \/ \E r \in 1..MaxOps : ResaveStep(r)]_vars

\* the callers of SpecReplay: one execution, one kind of step input, one call
\* more than MaxOps, the largest interval
ReplayInit ==
  /\ CollInit([ntasks |-> 2, ids |-> {"e1"}, inputs |-> PlainInputs,
               initials |-> InitialStates, backend |-> "async", extra |-> 1])
  /\ config.checkpoint_interval = MaxInterval
  /\ config.ignore_keys = {}

\* SpecReplay: long enough behaviours for an execution to be started again
\* after two steps and to record two more
SpecReplay == ReplayInit /\ [][Next]_vars

\* save_routing_decision: "SELECT execution_id FROM steps WHERE step_id = ?",
\* "" when there is no such step
RoutingExecutionId(step_id) ==
  IF \E r \in 1..Len(steps) : steps[r].step_id = step_id
  THEN steps[CHOOSE r \in 1..Len(steps) : steps[r].step_id = step_id].execution_id
  ELSE ""

\* record_routing: the decision is built and save_routing_decision inserts it
\* (INSERT INTO routing_decisions, key AUTOINCREMENT, no foreign key
\* enforced); the collector's lock and counters are not used.  On
\* SyncSQLiteStorage "await None" raises TypeError after the insert.
\* step_id 0 stands for the "" the routing wrapper passes
RecordRouting(step_id) ==
  /\ env.ntasks > 0
  /\ nOps < MaxOps + env.extra
  /\ nOps' = nOps + 1
  /\ routing' = Append(routing, [step_id |-> step_id,
                                 execution_id |-> RoutingExecutionId(step_id)])
  /\ last' = [op |-> "record_routing", id |-> RoutingExecutionId(step_id),
              existed |-> FALSE,
              error |-> IF env.backend = "sync" THEN "TypeError" ELSE ""]
  /\ UNCHANGED << config, executions, steps, counters, lock, tasks, calls, env,
                  diffVars, wrap >>

\* one execution recorded on either backend, nothing ignored by the diff
RoutingInit ==
  \E backend \in {"async", "sync"} :
    /\ CollInit([ntasks |-> 2, ids |-> {"e1"}, inputs |-> PlainInputs,
                 initials |-> InitialStates, backend |-> backend, extra |-> 0])
    /\ config.ignore_keys = {}

\* SpecRouting: record_routing calls interleaved with the other calls
SpecRouting ==
  RoutingInit /\ [][Next \/ \E step_id \in 0..1 : RecordRouting(step_id)]_vars

\* a DebugConfig as its dataclass accepts it: any integer interval; no
\* collector constructed yet
ConfigInit ==
  /\ config \in [enabled : {TRUE},
                 checkpoint_interval : (0 - 1)..MaxInterval,
                 ignore_keys : {{}}]
  /\ executions = [id \in ExecIds |-> NoExec]
  /\ steps = <<>>
  /\ counters = [id \in ExecIds |-> -1]
  /\ lock = 0
  /\ tasks = [p \in Tasks |-> IdleTask]
  /\ calls = <<>>
  /\ nOps = 0
  /\ env = NoCallers
  /\ last = NoCall
  /\ wrap = WrapIdle
  /\ routing = <<>>
  /\ dpc = "start"
  /\ t_in = EmptyDict
  /\ u_in = EmptyDict
  /\ ign_in = {}
  /\ d_out = StateDiff
  /\ r_out = NullV
  /\ ser = SerIdle

\* DebugCollector(config, storage): the config is stored as given, and the
\* collector is handed to its callers
NewCollector ==
  /\ env = NoCallers
  /\ env' = [ntasks |-> 2, ids |-> {"e1"}, inputs |-> PlainInputs,
             initials |-> InitialStates, backend |-> "async", extra |-> 0]
  /\ UNCHANGED << config, executions, steps, counters, lock, tasks, calls, nOps,
                  last, diffVars, wrap, routing >>

\* SpecConfig: a collector constructed from a config of any interval, then used
SpecConfig == ConfigInit /\ [][NewCollector \/ Next]_vars

(***************************************************************************)
(* storage/sqlite.py: get_state_at_step.  The position of a row in `steps` *)
(* is its rowid.  Rows of equal step_index are returned by the index on    *)
(* (execution_id, step_index) in rowid order: first inserted first under   *)
(* ORDER BY step_index ASC, last inserted first under ORDER BY ... DESC.   *)
(***************************************************************************)
\* Python truthiness of a deserialized value, as in "x or {}"
Falsy(v) == v \in {NullV, EmptyDict, ListV(<<>>), IntV(0), StrV("")}

\* WHERE execution_id = ? AND step_index <= ? AND is_checkpoint = 1
CheckpointRows(execution_id, step_index) ==
  {r \in RowsOf(execution_id) :
     steps[r].step_index <= step_index /\ steps[r].is_checkpoint}

\* ORDER BY step_index DESC LIMIT 1
NearestCheckpoint(rows) ==
  CHOOSE r \in rows : \A q \in rows :
    \/ steps[q].step_index < steps[r].step_index
    \/ (steps[q].step_index = steps[r].step_index /\ q <= r)

\* WHERE execution_id = ? AND step_index >= ? AND step_index <= ?
RowsBetween(execution_id, start_index, step_index) ==
  {r \in RowsOf(execution_id) :
     steps[r].step_index >= start_index /\ steps[r].step_index <= step_index}

\* ORDER BY step_index ASC
RECURSIVE OrderRows(_)
OrderRows(rows) ==
  IF rows = {} THEN <<>>
  ELSE LET r == CHOOSE r \in rows : \A q \in rows :
                   \/ steps[r].step_index < steps[q].step_index
                   \/ (steps[r].step_index = steps[q].step_index /\ r <= q)
       IN  << r >> \o OrderRows(rows \ {r})

\* the loop over diff_rows: a checkpoint row with its full state replaces the
\* state, any other row's diff is applied; an exception of apply_diff leaves
\* the loop
RECURSIVE ReplayRows(_, _)
ReplayRows(state, rows) ==
  IF rows = <<>> THEN state
  ELSE LET step == steps[Head(rows)]
           next == IF step.is_checkpoint /\ step.state_after # NullV
                   THEN step.state_after
                   ELSE apply_diff(state, step.state_diff)
       IN  IF next = ErrV THEN ErrV ELSE ReplayRows(next, Tail(rows))

\* SQLiteStorage.get_state_at_step; NullV is the None it returns
get_state_at_step(execution_id, step_index) ==
  LET cps == CheckpointRows(execution_id, step_index)
  IN  IF cps # {}
      THEN LET checkpoint == steps[NearestCheckpoint(cps)]
               state == IF Falsy(checkpoint.state_after) THEN EmptyDict
                        ELSE checkpoint.state_after
           IN  ReplayRows(state,
                 OrderRows(RowsBetween(execution_id, checkpoint.step_index + 1,
                                       step_index)))
      ELSE IF ~executions[execution_id].present THEN NullV
      ELSE ReplayRows(executions[execution_id].initial_state,
             OrderRows(RowsBetween(execution_id, 0, step_index)))

\* the state_diff of the steps 0..step_index applied in order to base
RECURSIVE FoldRows(_, _)
FoldRows(state, rows) ==
  IF rows = <<>> THEN state
  ELSE LET next == apply_diff(state, steps[Head(rows)].state_diff)
       IN  IF next = ErrV THEN ErrV ELSE FoldRows(next, Tail(rows))

FoldDiffs(execution_id, step_index) ==
  FoldRows(executions[execution_id].initial_state,
           OrderRows(RowsBetween(execution_id, 0, step_index)))

\* no call of the collector is in progress
Quiescent == \A p \in Tasks : tasks[p].pc = "idle"

\* the record_step calls so far were assigned the indices 0, 1, 2, ... of one
\* execution, each call starting from the state the previous one ended in
Chained ==
  \A j \in 1..Len(calls) :
    /\ calls[j].execution_id = "e1"
    /\ calls[j].step_index = j - 1
    /\ j > 1 => calls[j].state_before = calls[j - 1].state_after

\* the step indices of the rows of an execution, in the order they were stored
PersistedIndices(execution_id) ==
  [j \in 1..Cardinality(RowsOf(execution_id)) |->
     steps[CHOOSE r \in RowsOf(execution_id) :
             Cardinality({q \in RowsOf(execution_id) : q <= r}) = j].step_index]

(***************************************************************************)
(* Properties of the collector and of reconstruction.                      *)
(***************************************************************************)
\* C1: after a sequence of record_step calls on an execution, for every
\* recorded index i, get_state_at_step(E, i) equals the state_after passed to
\* the call that was assigned index i (any checkpoint_interval, any
\* ignore_keys).  Stated for chained calls, once every call has returned.
C1_Reconstruct ==
  (Quiescent /\ Chained) =>
    \A j \in 1..Len(calls) :
      get_state_at_step(calls[j].execution_id, calls[j].step_index)
        = calls[j].state_after

\* C2: for every ended execution E and every i in [0, E.step_count),
\* get_state_at_step(E, i) equals the fold of the diffs of steps 0..i over
\* E.initial_state, and the state_after of a checkpoint step equals that fold.
\* Stated for chained calls whose first state_before is E.initial_state.
C2_FoldEquivalence ==
  (/\ Quiescent
   /\ Chained
   /\ executions["e1"].present
   /\ executions["e1"].ended
   /\ Len(calls) > 0
   /\ calls[1].state_before = executions["e1"].initial_state)
  => \A i \in 0..(executions["e1"].step_count - 1) :
       /\ get_state_at_step("e1", i) = FoldDiffs("e1", i)
       /\ \A r \in RowsOf("e1") :
            (steps[r].step_index = i /\ steps[r].is_checkpoint)
              => steps[r].state_after = FoldDiffs("e1", i)

\* C4: with concurrent record_step calls on one execution, at every moment
\* the rows of the execution, in the order they reached storage, carry the
\* indices 0, 1, ..., n-1.  Stated for behaviours in which no two calls were
\* assigned the same index (the counter was never reset).
C4_OrderedPrefix ==
  (\A j, k \in 1..Len(calls) :
      (j # k /\ calls[j].execution_id = calls[k].execution_id)
        => calls[j].step_index # calls[k].step_index)
  => \A id \in ExecIds :
       PersistedIndices(id) = [j \in 1..Cardinality(RowsOf(id)) |-> j - 1]

\* C5: after any sequence of start_execution, record_step and end_execution
\* calls, for every ended execution E the step_index values of the persisted
\* steps of E are exactly 0 .. E.step_count - 1, each occurring once.
C5_DenseIndices ==
  Quiescent =>
    \A id \in ExecIds :
      (executions[id].present /\ executions[id].ended) =>
        /\ Cardinality(RowsOf(id)) = executions[id].step_count
        /\ {steps[r].step_index : r \in RowsOf(id)}
             = 0..(executions[id].step_count - 1)

\* C6: get_state_at_step(E, i) returns not-found whenever i is greater than
\* or equal to the number of steps recorded for E, and whenever E is unknown.
C6_NotFound ==
  Quiescent =>
    \A id \in ExecIds : \A i \in 0..MaxOps :
      (i >= Cardinality(RowsOf(id)) \/ ~executions[id].present)
        => get_state_at_step(id, i) = NullV

(***************************************************************************)
(* adapters/langgraph.py: _wrap_node_function.                             *)
(*                                                                         *)
(* sync_wrapper and async_wrapper run the same statements; the only        *)
(* difference is "await fn(...)" for "fn(...)".  The collector they find   *)
(* is a DebugCollector, whose record_step is a coroutine function: calling *)
(* it without await builds a coroutine object and runs none of its body.   *)
(* The wrappers drop that object, so nothing of record_step is executed:   *)
(* no index is allocated and no row is written.                            *)
(*                                                                         *)
(* The state a host passes is an arbitrary Python object.  safe_deepcopy   *)
(* raises on a state that copy.deepcopy rejects and whose serialized form  *)
(* json.dumps rejects (a lock next to an Enum whose value is bytes, say);  *)
(* `copyable` tells whether the state is one on which it succeeds.         *)
(***************************************************************************)
\* wrapper invocations in one behaviour
MaxCalls == 3

\* the states the wrappers are invoked with; the last one is not a mapping
WrapStates == {StateA, StateD, IntV(1)}

\* an update of a dict subclass whose items() raises
BadItems == [DictV(<< KeyX >>, << IntV(2) >>) EXCEPT !.s = "items unavailable"]

\* what the node does: return None, a partial update, a value that is not a
\* mapping, an update that cannot be merged, or raise
NodeBehaviours ==
  {[kind |-> "return", value |-> NullV],
   [kind |-> "return", value |-> DictV(<< KeyX >>, << IntV(2) >>)],
   [kind |-> "return", value |-> IntV(2)],
   [kind |-> "return", value |-> BadItems],
   [kind |-> "raise", value |-> StrV("boom")]}

\* the exception safe_deepcopy lets through
CopyError == [kind |-> "raise", value |-> StrV("not JSON serializable")]

\* merged[key] = value for every item of node_result
RECURSIVE MergeInto(_, _, _)
MergeInto(merged, node_result, i) ==
  IF i > Len(node_result.keys) THEN merged
  ELSE MergeInto(DictSet(merged, node_result.keys[i], node_result.items[i]),
                 node_result, i + 1)

_compute_state_after(state_before, node_result) ==
  IF node_result = NullV THEN state_before
  ELSE IF IsDict(state_before) /\ IsDict(node_result)
  THEN IF node_result = BadItems THEN ErrV
       ELSE MergeInto(state_before, node_result, 1)
  ELSE node_result

\* uuid4().hex[:16]: the id _execution_tracker generates in this context
CurrentExecutionId == "e1"

\* resolution that looks at the state before the config
_get_or_create_execution_id_state_first(state, config_id, state_id, current) ==
  IF IsDict(state) /\ state_id # ""
  THEN [id |-> state_id, current |-> current]
  ELSE IF config_id # ""
  THEN [id |-> config_id, current |-> current]
  ELSE [id |-> IF current = "" THEN CurrentExecutionId ELSE current,
        current |-> IF current = "" THEN CurrentExecutionId ELSE current]

\* _get_or_create_execution_id with _ExecutionTracker.get_current: the id
\* returned and the value the context variable holds afterwards
_get_or_create_execution_id(state, config_id, state_id, current) ==
  IF config_id # ""
  THEN [id |-> config_id, current |-> current]
  ELSE IF IsDict(state) /\ state_id # ""
  THEN [id |-> state_id, current |-> current]
  ELSE LET val == IF current = "" THEN CurrentExecutionId ELSE current
       IN  [id |-> val, current |-> val]

\* the wrapper returning the merged state instead of the node's own result
ReturnValue_merged(state_after, result) == state_after

\* "return result": the wrapper hands back the value fn returned
ReturnValue(state_after, result) == result

\* "raise": the wrapper re-raises the exception it caught
Reraise(exc) == [kind |-> "raise", value |-> exc]

\* a wrapper that looks at the collector only, not at config.enabled
Observing_collector(collector, enabled) == collector

\* the negation of "collector is None or not config.enabled"
Observing(collector, enabled) == collector /\ enabled

\* set_collector(DebugCollector(config, storage)), as enable_debugging does
SetCollector ==
  /\ wrap.pc = "idle"
  /\ ~wrap.collector
  /\ wrap' = [wrap EXCEPT !.collector = TRUE, !.collector_id = 1]
  /\ UNCHANGED << diffVars, collVars, routing >>

\* enable_debugging up to "if collector is None": a disabled config returns
\* the graph at once, a collector that is there is reused, and otherwise the
\* caller goes on to open the storage and construct a collector
EnableCheck(t, enabled) ==
  /\ wrap.enabling[t] = "idle"
  /\ wrap' = [wrap EXCEPT !.enabling[t] =
                 IF enabled /\ wrap.collector_id = 0 THEN "create" ELSE "done"]
  /\ UNCHANGED << diffVars, collVars, routing >>

\* enable_debugging from SyncSQLiteStorage(...) to set_collector(collector):
\* the collector this caller constructed becomes the process-wide one
EnablePublish(t) ==
  /\ wrap.enabling[t] = "create"
  /\ wrap' = [wrap EXCEPT !.enabling[t] = "done", !.collector = TRUE,
                          !.collector_id = t]
  /\ UNCHANGED << diffVars, collVars, routing >>

\* the wrapper up to the call of fn: without a collector, or disabled, it
\* only forwards; otherwise it copies the state and resolves the execution id
\* (the tracker allocates one if it holds none), both outside the try block
WrapperCall(kind, state, copyable, node, config_id, state_id) ==
  /\ wrap.pc \in {"idle", "done"}
  /\ wrap.invocations < MaxCalls
  /\ wrap' =
       LET w == [wrap EXCEPT !.kind = kind, !.state = state, !.node = node,
                             !.state_before = NullV, !.node_calls = 0,
                             !.failed = FALSE, !.outcome = NoOutcome,
                             !.invocations = @ + 1,
                             !.config_id = config_id, !.state_id = state_id,
                             !.execution_id = "", !.read = wrap.collector_id]
           resolved == _get_or_create_execution_id(state, config_id, state_id,
                                                   wrap.current_id)
       IN  IF ~Observing(wrap.collector, config.enabled)
           THEN [w EXCEPT !.pc = "passthrough"]
           ELSE IF ~copyable
           THEN [w EXCEPT !.pc = "done", !.failed = TRUE, !.outcome = CopyError]
           ELSE [w EXCEPT !.pc = "try", !.state_before = state,
                          !.execution_id = resolved.id,
                          !.current_id = resolved.current]
  /\ UNCHANGED << diffVars, collVars, routing >>

\* fn returns: state_after is computed and record_step is called, which only
\* builds a coroutine object; the result is returned.  If computing
\* state_after raises, "except Exception" catches it as it catches an
\* exception of fn: record_step is called with error = str(exc) and the
\* exception is re-raised
NodeReturns ==
  /\ wrap.pc \in {"passthrough", "try"}
  /\ wrap.node.kind = "return"
  /\ wrap' =
       LET result == wrap.node.value
           state_after == _compute_state_after(wrap.state_before, result)
           w == [wrap EXCEPT !.pc = "done", !.node_calls = @ + 1]
       IN  IF wrap.pc = "passthrough"
           THEN [w EXCEPT !.outcome = [kind |-> "return", value |-> result]]
           ELSE IF state_after = ErrV
           THEN [w EXCEPT
                   !.failed = TRUE,
                   !.coroutines = @ + 1,
                   !.last_call = [execution_id |-> wrap.execution_id,
                                  state_before |-> wrap.state_before,
                                  state_after |-> wrap.state_before,
                                  error |-> Some(result.s)],
                   !.outcome = Reraise(StrV(result.s))]
           ELSE [w EXCEPT
                   !.coroutines = @ + 1,
                   !.last_call = [execution_id |-> wrap.execution_id,
                                  state_before |-> wrap.state_before,
                                  state_after |-> state_after,
                                  error |-> NoneStr],
                   !.outcome = [kind |-> "return",
                                value |-> ReturnValue(state_after, result)]]
  /\ UNCHANGED << diffVars, collVars, routing >>

\* fn raises: record_step is called with state_after = state_before and
\* error = str(exc), which only builds a coroutine object; the exception is
\* re-raised
NodeRaises ==
  /\ wrap.pc \in {"passthrough", "try"}
  /\ wrap.node.kind = "raise"
  /\ wrap' =
       LET exc == wrap.node.value
           w == [wrap EXCEPT !.pc = "done", !.node_calls = @ + 1]
       IN  IF wrap.pc = "passthrough"
           THEN [w EXCEPT !.outcome = [kind |-> "raise", value |-> exc]]
           ELSE [w EXCEPT
                   !.coroutines = @ + 1,
                   !.last_call = [execution_id |-> wrap.execution_id,
                                  state_before |-> wrap.state_before,
                                  state_after |-> wrap.state_before,
                                  error |-> Some(exc.s)],
                   !.outcome = Reraise(exc)]
  /\ UNCHANGED << diffVars, collVars, routing >>

WrapInit ==
  /\ config \in [enabled : BOOLEAN, checkpoint_interval : {1}, ignore_keys : {{}}]
  /\ executions = [id \in ExecIds |-> NoExec]
  /\ steps = <<>>
  /\ counters = [id \in ExecIds |-> -1]
  /\ lock = 0
  /\ tasks = [p \in Tasks |-> IdleTask]
  /\ calls = <<>>
  /\ nOps = 0
  /\ env = NoCallers
  /\ last = NoCall
  /\ wrap = WrapIdle
  /\ routing = <<>>
  /\ dpc = "start"
  /\ t_in = EmptyDict
  /\ u_in = EmptyDict
  /\ ign_in = {}
  /\ d_out = StateDiff
  /\ r_out = NullV
  /\ ser = SerIdle

\* SpecWrap: invocations of instrumented nodes by a host that supplies no
\* execution id
SpecWrap ==
  WrapInit
    /\ [][\/ SetCollector
          \/ \E kind \in {"sync", "async"}, state \in WrapStates,
                copyable \in BOOLEAN, node \in NodeBehaviours :
               WrapperCall(kind, state, copyable, node, "", "")
          \/ NodeReturns
          \/ NodeRaises]_vars

\* SpecIds: invocations of instrumented nodes by a host that may supply an
\* execution id in the config, in the state, in both or in neither
SpecIds ==
  WrapInit
    /\ [][\/ SetCollector
          \/ \E kind \in {"sync", "async"}, state \in WrapStates,
                node \in {[kind |-> "return", value |-> NullV],
                          [kind |-> "raise", value |-> StrV("boom")]},
                config_id \in {"", "c1"}, state_id \in {"", "s1"} :
               WrapperCall(kind, state, TRUE, node, config_id, state_id)
          \/ NodeReturns
          \/ NodeRaises]_vars

\* what the routing predicate does: return a target, return None, or raise
PredicateBehaviours ==
  {[kind |-> "return", value |-> StrV("b")],
   [kind |-> "return", value |-> NullV],
   [kind |-> "raise", value |-> StrV("pred")]}

\* a wrapper whose recording failure reaches the host
EdgeOutcome_unshielded(predicate, recording_raised) ==
  IF recording_raised THEN CopyError ELSE predicate

\* _wrap_conditional_edge.wrapper: condition_fn is called outside the try
\* block, so its exception propagates; an exception of the recording is
\* caught by "except Exception" and "return result" follows
EdgeOutcome(predicate, recording_raised) == predicate

\* one invocation of the routing wrapper: the predicate is called, then, with
\* a collector present and enabled, the state is serialized and
\* record_routing is called, which only builds a coroutine object unless
\* serializing or describing raised
EdgeCall(state, predicate, recording_raises) ==
  /\ wrap.pc \in {"idle", "done"}
  /\ wrap.invocations < MaxCalls
  /\ wrap' =
       LET recording == /\ predicate.kind = "return"
                        /\ Observing(wrap.collector, config.enabled)
       IN  [wrap EXCEPT
              !.pc = "done", !.kind = "edge", !.state = state,
              !.node = predicate, !.state_before = NullV, !.node_calls = 1,
              !.failed = recording /\ recording_raises,
              !.coroutines = IF recording /\ ~recording_raises THEN @ + 1 ELSE @,
              !.outcome = EdgeOutcome(predicate, recording /\ recording_raises),
              !.invocations = @ + 1]
  /\ UNCHANGED << diffVars, collVars, routing >>

\* SpecEdge: invocations of an instrumented routing predicate
SpecEdge ==
  WrapInit
    /\ [][\/ SetCollector
          \/ \E state \in WrapStates, predicate \in PredicateBehaviours,
                recording_raises \in BOOLEAN :
               EdgeCall(state, predicate, recording_raises)]_vars

\* an invocation has come back to the host after the wrapper entered its
\* recording path (collector present and enabled, state copied)
Recorded ==
  /\ wrap.pc = "done"
  /\ wrap.collector
  /\ config.enabled
  /\ ~wrap.failed

\* C7: if the recording machinery fails during an instrumented invocation,
\* the host still gets the node's result when the node succeeded and the
\* node's own exception when it failed.
C7_Shielded ==
  (wrap.pc = "done" /\ wrap.failed) =>
    (wrap.node_calls = 1 /\ wrap.outcome = wrap.node)

\* C8: when recording raises nothing, the wrapper calls the original node
\* exactly once and the host observes exactly the value it returned, or
\* exactly the exception it raised.
C8_Transparent ==
  (wrap.pc = "done" /\ ~wrap.failed) =>
    (wrap.node_calls = 1 /\ wrap.outcome = wrap.node)

\* an instrumented node under an enabled collector returned a partial update
\* and the host received it
C8_Witness ==
  /\ Recorded
  /\ wrap.node = [kind |-> "return", value |-> DictV(<< KeyX >>, << IntV(2) >>)]
  /\ wrap.state = StateA
  /\ wrap.last_call.state_after # wrap.node.value
  /\ wrap.outcome = wrap.node
  /\ wrap.node_calls = 1

\* C9: for every invocation of an instrumented node with a collector present
\* and enabled, one step of that invocation has been persisted by the time
\* the wrapper returns or raises: as many rows as record_step calls.
C9_StepPersisted ==
  Recorded => Cardinality(RowsOf(CurrentExecutionId)) = wrap.coroutines

\* C10: when an instrumented node raises, one step with status failed,
\* state_after equal to state_before and error set to the description has
\* been recorded, and the host observes the exception the node raised.
C10_FailureRecorded ==
  (Recorded /\ wrap.node.kind = "raise") =>
    /\ wrap.outcome = wrap.node
    /\ \E r \in RowsOf(CurrentExecutionId) :
         /\ steps[r].status = "failed"
         /\ steps[r].error = Some(wrap.node.value.s)
         /\ is_empty(steps[r].state_diff)

(***************************************************************************)
(* Properties of the persisted rows.                                       *)
(***************************************************************************)
\* C11: record_step persists a step with status failed if and only if an
\* error was supplied (error is not absent), whatever the error string;
\* otherwise the status is completed.
C11_FailedIffError ==
  \A r \in 1..Len(steps) :
    /\ steps[r].status \in {"failed", "completed"}
    /\ steps[r].status = "failed" <=> steps[r].error # NoneStr

\* C12: every step persisted by record_step has is_checkpoint = true exactly
\* when step_index mod checkpoint_interval = 0; hence step 0 of every
\* execution is a checkpoint.
C12_CheckpointRule ==
  \A r \in 1..Len(steps) :
    /\ steps[r].is_checkpoint
         <=> (steps[r].step_index % config.checkpoint_interval = 0)
    /\ steps[r].step_index = 0 => steps[r].is_checkpoint

\* with checkpoint_interval 2, steps 0, 1 and 2 are stored: 0 and 2 as
\* checkpoints, 1 not
C12_Witness ==
  /\ config.checkpoint_interval = 2
  /\ \E r0, r1, r2 \in 1..Len(steps) :
       /\ steps[r0].step_index = 0 /\ steps[r0].is_checkpoint
       /\ steps[r1].step_index = 1 /\ ~steps[r1].is_checkpoint
       /\ steps[r2].step_index = 2 /\ steps[r2].is_checkpoint

\* C13: for every persisted step, is_checkpoint is true if and only if
\* state_after is present; state_before is likewise present exactly on
\* checkpoint steps, and state_diff is always present.
C13_SnapshotIffCheckpoint ==
  \A r \in 1..Len(steps) :
    /\ steps[r].is_checkpoint <=> steps[r].state_after # NullV
    /\ steps[r].is_checkpoint <=> steps[r].state_before # NullV
    /\ DOMAIN steps[r].state_diff = {"changed", "added", "removed"}

\* a checkpoint row holding both states next to a row that holds only a
\* non-empty diff
C13_Witness ==
  \E r, q \in 1..Len(steps) :
    /\ steps[r].is_checkpoint
    /\ steps[r].state_before = StateA
    /\ steps[r].state_after = StateB
    /\ ~steps[q].is_checkpoint
    /\ steps[q].state_after = NullV
    /\ steps[q].state_before = NullV
    /\ ~is_empty(steps[q].state_diff)

\* the step indices record_step allocated to one execution, in allocation order
IndicesOf(execution_id) ==
  LET own == SelectSeq(calls, LAMBDA c : c.execution_id = execution_id)
  IN  [j \in 1..Len(own) |-> own[j].step_index]

\* C14: when two executions with different ids are recorded concurrently by
\* one collector, each gets its own step_index sequence 0, 1, 2, ...: every
\* record_step is given the index that follows the previous index of its own
\* execution (0 for the first step, and 0 again when a start_execution of that
\* same id has zeroed its counter), and it leaves the counter of the other
\* execution unchanged.
C14_OwnSequence ==
  [][Len(calls') = Len(calls) + 1 =>
       LET c == calls'[Len(calls')]
           own == IndicesOf(c.execution_id)
       IN  /\ c.step_index =
                IF counters[c.execution_id] \in {-1, 0} \/ own = <<>> THEN 0
                ELSE own[Len(own)] + 1
           /\ \A other \in ExecIds \ {c.execution_id} :
                counters'[other] = counters[other]]_vars

\* two record_step calls of different executions suspended in storage at the
\* same time, after the calls alternated between the executions
C14_Witness ==
  /\ tasks[1].pc = "rec_save"
  /\ tasks[2].pc = "rec_save"
  /\ tasks[1].id # tasks[2].id
  /\ IndicesOf("e1") = << 0, 1 >>
  /\ IndicesOf("e2") = << 0, 1 >>
  /\ Len(calls) = 4
  /\ calls[1].execution_id # calls[2].execution_id

\* C15: start_execution with an execution id that already has a persisted
\* Execution fails, on the synchronous backend as on the asynchronous one:
\* the step that completes such a call ends in an exception and leaves the
\* executions table as it was.
C15_DuplicateStartFails ==
  [][(/\ last' # last \/ executions' # executions
      /\ last'.op = "start_execution"
      /\ last'.existed)
     => (last'.error # "" /\ executions' = executions)]_vars

\* C16: after an Execution row is created, its creation fields (of which the
\* row of the model carries initial_state) never change, and the row stays,
\* under any sequence of start_execution, record_step and end_execution calls.
C16_CreationFieldsFrozen ==
  [][\A id \in ExecIds :
       executions[id].present =>
         /\ executions'[id].present
         /\ executions'[id].initial_state = executions[id].initial_state]_vars

\* C17: the tail fields ended_at, status, final_state and step_count of an
\* Execution are set exactly once: once an end_execution for an id has
\* completed, no later step changes them.
C17_TailSetOnce ==
  [][\A id \in ExecIds :
       (executions[id].present /\ executions[id].ended) =>
         /\ executions'[id].ended
         /\ executions'[id].status = executions[id].status
         /\ executions'[id].final_state = executions[id].final_state
         /\ executions'[id].step_count = executions[id].step_count]_vars

\* C18: once a step row is persisted, no operation of the collector or of
\* storage changes or deletes it: after every step each stored row is present
\* with identical field values, a save_step with an already-used step_id
\* included.
C18_StepsAppendOnly ==
  [][\A r \in 1..Len(steps) :
       /\ r <= Len(steps')
       /\ steps'[r] = steps[r]]_vars

\* a save_step with the step_id of a stored row was rejected, and the rows
\* stored before it still carry what record_step wrote
C18_Witness ==
  /\ last.op = "save_step"
  /\ last.error = "IntegrityError"
  /\ Len(steps) >= 2
  /\ \A r \in 1..Len(steps) : steps[r].status \in {"completed", "failed"}
  /\ \E r \in 1..Len(steps) : steps[r].state_after # NullV

\* C19: every persisted step's execution_id refers to an Execution row that
\* exists in storage, steps recorded by record_step for an id that was never
\* started included.
C19_StepsReferToExecution ==
  \A r \in 1..Len(steps) : executions[steps[r].execution_id].present

\* C20: when the collector reference is absent or the config is disabled, an
\* instrumented node wrapper invokes the original node exactly once, hands
\* its result (or its exception) to the host, and records nothing: no
\* record_step call is made, no step is persisted, no step counter changes
\* and no execution id is allocated.
C20_PassThrough ==
  (wrap.pc = "done" /\ (~wrap.collector \/ ~config.enabled)) =>
    /\ wrap.node_calls = 1
    /\ wrap.outcome = wrap.node
    /\ wrap.coroutines = 0
    /\ wrap.last_call = WrapIdle.last_call
    /\ wrap.current_id = ""
    /\ steps = <<>>
    /\ \A id \in ExecIds : counters[id] = -1

\* a collector is installed, the config is disabled, and a second invocation
\* of a node that returns an update has come back to the host
C20_Witness ==
  /\ wrap.pc = "done"
  /\ wrap.collector
  /\ ~config.enabled
  /\ wrap.invocations = 2
  /\ wrap.node_calls = 1
  /\ wrap.outcome = [kind |-> "return", value |-> DictV(<< KeyX >>, << IntV(2) >>)]

\* C21: a collector cannot be constructed with checkpoint_interval <= 0, so
\* record_step never runs with a non-positive interval.
C21_PositiveInterval ==
  /\ env # NoCallers => config.checkpoint_interval > 0
  /\ Len(calls) > 0 => config.checkpoint_interval > 0

\* the rows whose state_diff the loop of get_state_at_step applies: the rows
\* after the checkpoint it starts from (all rows up to step_index when it
\* starts from the initial state), except checkpoint rows with a full state
AppliedRows(execution_id, step_index) ==
  LET cps == CheckpointRows(execution_id, step_index)
      diff_rows ==
        IF cps # {}
        THEN RowsBetween(execution_id,
                         steps[NearestCheckpoint(cps)].step_index + 1, step_index)
        ELSE IF ~executions[execution_id].present THEN {}
        ELSE RowsBetween(execution_id, 0, step_index)
  IN  {r \in diff_rows : ~(steps[r].is_checkpoint /\ steps[r].state_after # NullV)}

\* C22: for every execution recorded by record_step with checkpoint_interval
\* k and every recorded index i, get_state_at_step(E, i) starts from a
\* checkpoint at or below i and applies at most k-1 diffs.  Stated once every
\* call has returned.
C22_BoundedReplay ==
  Quiescent =>
    \A r \in 1..Len(steps) :
      /\ CheckpointRows(steps[r].execution_id, steps[r].step_index) # {}
      /\ Cardinality(AppliedRows(steps[r].execution_id, steps[r].step_index))
           <= config.checkpoint_interval - 1

\* C23: record_routing never affects step numbering: a record_routing call
\* leaves every step counter, every persisted step and the lock unchanged, and
\* the step_index given to a record_step is the successor of the previous
\* index of its execution (0 at the start of a sequence) whatever number of
\* record_routing calls came in between.
C23_RoutingFrame ==
  [][/\ routing' # routing =>
          /\ counters' = counters
          /\ steps' = steps
          /\ calls' = calls
          /\ lock' = lock
          /\ tasks' = tasks
     /\ Len(calls') = Len(calls) + 1 =>
          LET c == calls'[Len(calls')]
              own == IndicesOf(c.execution_id)
          IN  c.step_index =
                IF counters[c.execution_id] \in {-1, 0} \/ own = <<>> THEN 0
                ELSE own[Len(own)] + 1]_vars

\* a routing decision was stored for the first step of the execution, and a
\* record_step that came back after it was given index 1
C23_Witness ==
  /\ \E d \in 1..Len(routing) : routing[d].execution_id = "e1"
  /\ \E d \in 1..Len(routing) : routing[d].execution_id = ""
  /\ last.op = "record_step"
  /\ Len(steps) = 2
  /\ steps[2].step_index = 1

\* C24: the routing-predicate wrapper invokes the predicate exactly once and
\* returns its result; an error raised by the predicate propagates to the host
\* unchanged, and a failure while recording the routing decision is swallowed:
\* the predicate's result is still returned.
C24_EdgeTransparent ==
  (wrap.pc = "done" /\ wrap.kind = "edge") =>
    /\ wrap.node_calls = 1
    /\ wrap.node.kind = "raise" => (wrap.outcome = wrap.node /\ ~wrap.failed)
    /\ wrap.node.kind = "return" => wrap.outcome = wrap.node
    /\ wrap.failed => wrap.outcome.kind = "return"

\* recording failed under an enabled collector and the host received the
\* target the predicate returned
C24_Witness ==
  /\ wrap.pc = "done"
  /\ wrap.kind = "edge"
  /\ wrap.collector
  /\ config.enabled
  /\ wrap.failed
  /\ wrap.node_calls = 1
  /\ wrap.outcome = [kind |-> "return", value |-> StrV("b")]

(***************************************************************************)
(* Properties of serialization, of the diff engine and of the storage      *)
(* round trip.                                                             *)
(***************************************************************************)
\* C29: for every input value v, serialize_state(v) is a tree built only from
\* null, booleans, finite numbers, strings, lists and string-keyed mappings,
\* Enum members of any underlying value and non-finite floats included.
C29_SerializedIsTree ==
  ser.pc \in {"once", "twice"} => IsTree(ser.once)

\* C30: serialize_state is idempotent: for every input value x,
\* serialize_state(serialize_state(x)) equals serialize_state(x).
C30_Idempotent ==
  ser.pc = "twice" => PyEqual(ser.twice, ser.once)

\* C25: for every serialized tree t, compute_diff(t, t) is empty (no changed,
\* added or removed entries) and apply_diff(t, compute_diff(t, t)) equals t.
C25_SelfDiffEmpty ==
  (t_in = u_in /\ dpc \in {"diffed", "applied"}) =>
    /\ is_empty(d_out)
    /\ dpc = "applied" => r_out = t_in

\* C26: apply_diff never mutates its inputs: base and diff are after the call
\* what they were before it, and the returned tree shares no dict or list
\* object with base or with the values stored in diff, so that a later
\* mutation of the returned tree changes neither.
C26_NoAliasing ==
  [][(dpc = "diffed" /\ dpc' = "applied") =>
       /\ t_in' = t_in
       /\ d_out' = d_out
       /\ Owners(r_out') \cap {"base", "after"} = {}]_vars

\* apply_diff rebuilt the after-state from a base that holds a nested
\* container and a diff with an added entry whose value is a container of
\* `after`: the result holds copies of both
C26_Witness ==
  /\ dpc = "applied"
  /\ r_out = deepcopy(u_in)
  /\ "base" \in UNION {Owners(t_in.items[i]) : i \in 1..Len(t_in.items)}
  /\ \E e \in 1..Len(d_out.added) : "after" \in Owners(d_out.added[e].value)
  /\ \E j \in 1..Len(r_out.items) : IsContainer(r_out.items[j])

\* C27: compute_diff excludes a key of ignore_keys at the top level only: the
\* diff is the diff of the two states without their top-level ignored keys,
\* computed with nothing ignored, so that a top-level ignored key appears in
\* no entry and a key of the same name nested in a mapping or in a list
\* element is diffed like any other key.
C27_IgnoreTopLevelOnly ==
  dpc \in {"diffed", "applied"} =>
    d_out = compute_diff(WithoutKeys(t_in, ign_in), WithoutKeys(u_in, ign_in), {})

\* C28: what the storage is given is what it gives back: after save_execution
\* or update_execution of an Execution, get_execution returns one with equal
\* status, initial_state, final_state and step_count, and after save_step of
\* a step, get_step returns one with equal state_before, state_after,
\* state_diff and is_checkpoint.
C28_RoundTrip ==
  [][\A p \in Tasks :
       /\ (tasks[p].pc \in {"start_save", "end_update"} /\ tasks'[p].pc = "idle"
             /\ last'.error = "")
            => LET given == tasks[p].exec
                   got   == executions'[tasks[p].id]
               IN  /\ got.present
                   /\ got.status = given.status
                   /\ got.initial_state = given.initial_state
                   /\ got.final_state = given.final_state
                   /\ got.step_count = given.step_count
       /\ (tasks[p].pc = "rec_save" /\ tasks'[p].pc = "idle" /\ last'.error = "")
            => \E r \in 1..Len(steps') :
                 /\ steps'[r].step_id = tasks[p].step.step_id
                 /\ steps'[r].state_before = tasks[p].step.state_before
                 /\ steps'[r].state_after = tasks[p].step.state_after
                 /\ steps'[r].state_diff = tasks[p].step.state_diff
                 /\ steps'[r].is_checkpoint = tasks[p].step.is_checkpoint]_vars

(***************************************************************************)
(* Properties of apply_diff's loops, of list diffs, of the replay          *)
(* timeline, of the adapter's execution id and collector, and of what the  *)
(* wrappers record.                                                        *)
(***************************************************************************)
\* C34: apply_diff applies every changed entry except the synthetic length
\* entries emitted for two lists of different length: a changed entry for a
\* top-level key, or for a key of the mapping under "x", whatever the key is
\* called, leaves new_value at its path in the result.
C34_ChangedApplied ==
  (dpc = "applied" /\ ign_in = {} /\ r_out # ErrV) =>
    \A e \in 1..Len(d_out.changed) :
      LET entry == d_out.changed[e]
      IN  /\ \A key \in {KeyX, KeyTs} :
               entry.path = key => DictGet(r_out, key) = entry.new_value
          /\ \A key \in {KeyA, KeyLength} :
               (/\ entry.path = _join_path(KeyX, key)
                /\ IsDict(DictGet(t_in, KeyX))
                /\ IsDict(DictGet(u_in, KeyX)))
                 => DictGet(DictGet(r_out, KeyX), key) = entry.new_value

\* C35: for two lists of lengths m and n under the key "x", compute_diff
\* compares the indices below min(m, n) element by element, emits one added
\* entry for each index from min(m, n) to n - 1 and one removed entry for each
\* index from min(m, n) to m - 1 and no other, and emits exactly one changed
\* entry at "x.length", from m to n, when m differs from n and none when m
\* equals n.
C35_ListDiff ==
  (/\ dpc \in {"diffed", "applied"}
   /\ HasKey(t_in, KeyX) /\ HasKey(u_in, KeyX)
   /\ IsList(DictGet(t_in, KeyX)) /\ IsList(DictGet(u_in, KeyX))) =>
    LET before == DictGet(t_in, KeyX).items
        after == DictGet(u_in, KeyX).items
        m == Len(before)
        n == Len(after)
        min_len == IF m < n THEN m ELSE n
        At(entries, path) == {e \in 1..Len(entries) : entries[e].path = path}
        UnderX(entries) == {e \in 1..Len(entries) : entries[e].path[1] = "x"}
        length == At(d_out.changed, KeyX \o DotLength)
    IN  /\ Cardinality(UnderX(d_out.added)) = n - min_len
        /\ Cardinality(UnderX(d_out.removed)) = m - min_len
        /\ \A i \in min_len..(n - 1) :
             \E e \in At(d_out.added, ItemPath(KeyX, i)) :
               d_out.added[e].value = after[i + 1]
        /\ \A i \in min_len..(m - 1) :
             \E e \in At(d_out.removed, ItemPath(KeyX, i)) :
               d_out.removed[e].value = before[i + 1]
        /\ Cardinality(length) = IF m = n THEN 0 ELSE 1
        /\ \A e \in length : /\ d_out.changed[e].old_value = IntV(m)
                             /\ d_out.changed[e].new_value = IntV(n)
        /\ \A i \in 0..(min_len - 1) :
             (before[i + 1].k = "int" /\ after[i + 1].k = "int") =>
               Cardinality(At(d_out.changed, ItemPath(KeyX, i)))
                 = IF before[i + 1] = after[i + 1] THEN 0 ELSE 1

\* a list of one element against a list of two that differs at index 0: one
\* changed element, one added tail entry and the length entry
C35_Witness ==
  /\ dpc = "diffed"
  /\ HasKey(t_in, KeyX) /\ HasKey(u_in, KeyX)
  /\ IsList(DictGet(t_in, KeyX)) /\ IsList(DictGet(u_in, KeyX))
  /\ Len(DictGet(t_in, KeyX).items) = 1
  /\ Len(DictGet(u_in, KeyX).items) = 2
  /\ DictGet(t_in, KeyX).items[1] # DictGet(u_in, KeyX).items[1]
  /\ Len(d_out.changed) >= 2
  /\ Len(d_out.added) >= 1

\* C38: a start_execution call that fails because the id already exists
\* leaves the step counter of that id as it was: once such a call has come
\* back, the counter of its id is above every step_index persisted for it, so
\* that the next record_step gets an index that no persisted row has.
C38_FailedStartKeepsCounter ==
  (/\ Quiescent
   /\ last.op = "start_execution"
   /\ last.existed
   /\ last.error = "IntegrityError") =>
    \A r \in RowsOf(last.id) : steps[r].step_index < counters[last.id]

\* C39: every routing decision the routing-predicate wrapper recorded while
\* the execution runs is returned by get_routing_decisions of that execution,
\* in recording order: the routing_decisions rows of the execution are as
\* many as the record_routing calls the wrapper made.
C39_RoutingListed ==
  (wrap.kind = "edge" /\ wrap.pc = "done") =>
    Len(SelectSeq(routing, LAMBDA d : d.execution_id = CurrentExecutionId))
      = wrap.coroutines

\* C40: the wrapper records a step with an error only if the node function
\* itself raised: when the node returned normally, the record_step call of the
\* invocation, if one is made, carries no error and no persisted step carries
\* one, whether or not the recording machinery failed in that invocation.
C40_ErrorOnlyIfNodeRaised ==
  [][(wrap'.kind \in {"sync", "async"} /\ wrap'.node.kind = "return") =>
       /\ wrap'.coroutines # wrap.coroutines => wrap'.last_call.error = NoneStr
       /\ wrap'.coroutines = wrap.coroutines => wrap'.last_call = wrap.last_call
       /\ \A r \in 1..Len(steps') : r > Len(steps) => steps'[r].error = NoneStr]_vars

\* C36: apply_diff applies the added entries in the given order and creates
\* what is missing on an entry's path: where the containers the base holds on
\* the path are of the kind the path addresses, the call succeeds, the value
\* of the last entry of each path is found at that path in the result, and
\* the elements a list under "x" gained below the addressed index are null.
C36_AddedCreatesPath ==
  dpc = "applied" =>
    \A e \in 1..Len(d_out.added) :
      LET entry == d_out.added[e]
          segments == _parse_path(entry.path)
          RECURSIVE Compatible(_, _)
          Compatible(current, segs) ==
            IF segs = <<>> THEN TRUE
            ELSE IF Head(segs).t = "int"
            THEN /\ IsList(current)
                 /\ Head(segs).n < Len(current.items) =>
                      Compatible(current.items[Head(segs).n + 1], Tail(segs))
            ELSE /\ IsDict(current)
                 /\ HasKey(current, Head(segs).s) =>
                      (Len(segs) = 1 \/ Compatible(DictGet(current, Head(segs).s), Tail(segs)))
          RECURSIVE Get(_, _)
          Get(current, segs) ==
            IF segs = <<>> THEN current
            ELSE IF Head(segs).t = "int"
            THEN IF IsList(current) /\ Head(segs).n < Len(current.items)
                 THEN Get(current.items[Head(segs).n + 1], Tail(segs))
                 ELSE ErrV
            ELSE IF IsDict(current) /\ HasKey(current, Head(segs).s)
                 THEN Get(DictGet(current, Head(segs).s), Tail(segs))
                 ELSE ErrV
          before == IF HasKey(t_in, KeyX) /\ IsList(DictGet(t_in, KeyX))
                    THEN Len(DictGet(t_in, KeyX).items) ELSE 0
      IN  (/\ Compatible(t_in, segments)
           /\ \A later \in (e + 1)..Len(d_out.added) :
                d_out.added[later].path # entry.path) =>
            /\ r_out # ErrV
            /\ Get(r_out, segments) = entry.value
            /\ (Len(segments) > 1 /\ segments[2].t = "int") =>
                 \A j \in (before + 1)..segments[2].n :
                   Get(r_out, << segments[1], IntSeg(j - 1) >>) = NullV

(***************************************************************************)
(* replay/engine.py: get_full_timeline.                                    *)
(***************************************************************************)
\* ReplayEngine.get_full_timeline: [] without the execution row or without
\* steps; else one entry per row of list_steps, the running state replaced by
\* a checkpoint row's truthy state_after and advanced by apply_diff otherwise.
\* ErrV is an exception of apply_diff leaving the call.
get_full_timeline(execution_id) ==
  LET RECURSIVE Entries(_, _)
      Entries(current_state, rows) ==
        IF rows = <<>> THEN <<>>
        ELSE LET step_data == steps[Head(rows)]
                 state == IF step_data.is_checkpoint /\ ~Falsy(step_data.state_after)
                          THEN step_data.state_after
                          ELSE apply_diff(current_state, step_data.state_diff)
                 rest == IF state = ErrV THEN ErrV ELSE Entries(state, Tail(rows))
             IN  IF rest = ErrV THEN ErrV
                 ELSE << [step_index |-> step_data.step_index, state |-> state] >>
                        \o rest
  IN  IF ~executions[execution_id].present \/ RowsOf(execution_id) = {}
      THEN <<>>
      ELSE Entries(executions[execution_id].initial_state,
                   OrderRows(RowsOf(execution_id)))

\* SpecTimeline: one execution whose steps change the volatile key or empty
\* the state
SpecTimeline ==
  CollInit([ntasks |-> 2, ids |-> {"e1"},
            inputs |-> {[state_before |-> StateA, state_after |-> StateB,
                         error |-> NoneStr],
                        [state_before |-> StateA, state_after |-> EmptyDict,
                         error |-> NoneStr]},
            initials |-> InitialStates, backend |-> "async", extra |-> 0])
    /\ [][Next]_vars

\* C37: with no call in progress, for an execution that was started and
\* whose rows have distinct indices, the timeline has one entry per persisted
\* step, in ascending step_index order, and the state of the entry of step
\* index i is get_state_at_step(execution, i).
C37_TimelineMatchesStateAtStep ==
  (/\ Quiescent
   /\ executions["e1"].present
   /\ \A r, q \in RowsOf("e1") :
        steps[r].step_index = steps[q].step_index => r = q) =>
    LET timeline == get_full_timeline("e1")
        rows == OrderRows(RowsOf("e1"))
    IN  /\ timeline # ErrV
        /\ Len(timeline) = Len(rows)
        /\ \A j \in 1..Len(rows) :
             /\ timeline[j].step_index = steps[rows[j]].step_index
             /\ j > 1 => timeline[j - 1].step_index < timeline[j].step_index
             /\ timeline[j].state
                  = get_state_at_step("e1", timeline[j].step_index)

\* C32: when a node wrapper resolves its execution id, the id is the first
\* one present among the config's id, the id under the state mapping's
\* reserved key and the context's value, in this order; when none is present
\* the generated id is used and the context holds it afterwards, and an id
\* the context already held is left in place.
C32_ResolutionOrder ==
  [][(wrap'.pc = "try" /\ wrap.pc # "try") =>
       LET candidates == << wrap'.config_id,
                            IF IsDict(wrap'.state) THEN wrap'.state_id ELSE "",
                            wrap.current_id >>
           present == {j \in 1..3 : candidates[j] # ""}
       IN  /\ present # {} =>
                wrap'.execution_id
                  = candidates[CHOOSE j \in present : \A q \in present : j <= q]
           /\ present = {} =>
                /\ wrap'.execution_id = CurrentExecutionId
                /\ wrap'.current_id = CurrentExecutionId
           /\ wrap.current_id # "" => wrap'.current_id = wrap.current_id]_vars

\* an invocation without an id in the config or the state resolves the id an
\* earlier invocation generated and recorded with
C32_Witness ==
  /\ wrap.pc = "try"
  /\ wrap.config_id = ""
  /\ wrap.state_id = ""
  /\ wrap.last_call.execution_id = CurrentExecutionId
  /\ wrap.execution_id = CurrentExecutionId
  /\ wrap.current_id = CurrentExecutionId

\* SpecEnable: two threads call enable_debugging once each, with an enabled
\* or a disabled config, while instrumented nodes are invoked
SpecEnable ==
  WrapInit
    /\ [][\/ \E t \in {1, 2}, enabled \in BOOLEAN : EnableCheck(t, enabled)
          \/ \E t \in {1, 2} : EnablePublish(t)
          \/ \E kind \in {"sync", "async"}, state \in WrapStates,
                node \in {[kind |-> "return", value |-> NullV],
                          [kind |-> "raise", value |-> StrV("boom")]} :
               WrapperCall(kind, state, TRUE, node, "", "")
          \/ NodeReturns
          \/ NodeRaises]_vars

\* C33: once a collector is published, no step replaces the process-wide
\* reference, and a node wrapper invocation that finds a collector finds the
\* one the invocation before it found.
C33_SetOnce ==
  [][/\ wrap.collector_id # 0 => wrap'.collector_id = wrap.collector_id
     /\ (wrap.read # 0 /\ wrap'.read # 0) => wrap'.read = wrap.read]_vars

(***************************************************************************)
(* SpecCycle: serialize_state on object graphs.  A heap maps the object    *)
(* ids 1, 2, 3 to containers: a dict (its values under the keys "a", "x"   *)
(* in this order), a list, or an instance of a plain class O (its public   *)
(* attributes a, x); an item is an object id, or 0 for the int 1.  The     *)
(* call is serialize_state(object 1), and object 1, the state, is a dict.  *)
(***************************************************************************)
\* a guard whose set also receives the siblings visited before an item
RECURSIVE serialize_state_pollute(_, _, _)
serialize_state_pollute(heap, state, _seen) ==
  IF state = 0 THEN IntV(1)
  ELSE IF state \in _seen THEN StrV("<circular reference>")
  ELSE LET items == heap[state].items
           values == [i \in 1..Len(items) |->
                        serialize_state_pollute(heap, items[i],
                          _seen \cup {state}
                            \cup {items[j] : j \in 1..(i - 1)})]
           keys == SubSeq(<< KeyA, KeyX >>, 1, Len(items))
       IN  IF heap[state].k = "list" THEN ListV(values)
           ELSE IF heap[state].k = "dict" THEN DictV(keys, values)
           ELSE DictV(<< << "_", "_", "t", "y", "p", "e", "_", "_" >> >> \o keys,
                      << StrV("O") >> \o values)

\* serialize_state(state, _seen=_seen) for the object `state` of `heap`: an
\* id found in _seen gives the sentinel; otherwise the items are serialized
\* with "_seen | {obj_id}", a new set for each container
RECURSIVE serialize_state_seen(_, _, _)
serialize_state_seen(heap, state, _seen) ==
  IF state = 0 THEN IntV(1)
  ELSE IF state \in _seen THEN StrV("<circular reference>")
  ELSE LET items == heap[state].items
           values == [i \in 1..Len(items) |->
                        serialize_state_seen(heap, items[i], _seen \cup {state})]
           keys == SubSeq(<< KeyA, KeyX >>, 1, Len(items))
       IN  IF heap[state].k = "list" THEN ListV(values)
           ELSE IF heap[state].k = "dict" THEN DictV(keys, values)
           ELSE DictV(<< << "_", "_", "t", "y", "p", "e", "_", "_" >> >> \o keys,
                      << StrV("O") >> \o values)

CycleInit ==
  /\ ser \in [pc : {"graph"},
              value : [1..3 -> [k : {"dict", "list", "object"},
                                items : UNION {[1..n -> 0..3] : n \in 0..2}]],
              once : {NullV}, twice : {NullV}]
  /\ ser.value[1].k = "dict"
  /\ dpc = "start"
  /\ t_in = EmptyDict
  /\ u_in = EmptyDict
  /\ ign_in = {}
  /\ d_out = StateDiff
  /\ r_out = NullV
  /\ CollIdle

SerializeGraph ==
  /\ ser.pc = "graph"
  /\ ser' = [ser EXCEPT !.pc = "serialized",
                        !.once = serialize_state_seen(ser.value, 1, {})]
  /\ UNCHANGED << dpc, t_in, u_in, ign_in, d_out, r_out, collVars, wrap, routing >>

SpecCycle == CycleInit /\ [][SerializeGraph]_vars

\* C31: serialize_state returns on every object graph, and at every path of
\* item positions that exists in the graph and whose proper prefixes reach
\* no object twice, the result holds the sentinel if the object reached is
\* one of the objects on the path before it (so once on each way around a
\* cycle, where the walk ends), the int for an int, and otherwise a container
\* of the object's kind with all its items, whether or not the object is
\* also reached along another path.
C31_CircularSentinel ==
  ser.pc = "serialized" =>
    LET heap == ser.value
        RECURSIVE Visited(_)
        \* the objects on the path, the root first; << >> if the path leaves
        \* the graph
        Visited(path) ==
          IF path = <<>> THEN << 1 >>
          ELSE LET before == Visited(SubSeq(path, 1, Len(path) - 1))
                   obj == IF before = <<>> THEN 0 ELSE before[Len(before)]
               IN  IF obj = 0 \/ path[Len(path)] > Len(heap[obj].items)
                   THEN <<>>
                   ELSE Append(before, heap[obj].items[path[Len(path)]])
        RECURSIVE ResultAt(_, _, _)
        \* the part of the result at the path, `objs` being the objects on it
        ResultAt(result, path, objs) ==
          IF path = <<>> THEN result
          ELSE ResultAt(result.items[Head(path)
                                       + (IF heap[Head(objs)].k = "object"
                                          THEN 1 ELSE 0)],
                        Tail(path), Tail(objs))
        Distinct(objs) == \A i, j \in 1..Len(objs) : objs[i] = objs[j] => i = j
    IN  \A n \in 0..4 : \A path \in [1..n -> 1..2] :
          LET objs == Visited(path)
          IN  (objs # <<>> /\ Distinct(SubSeq(objs, 1, Len(objs) - 1))) =>
                LET obj == objs[Len(objs)]
                    out == ResultAt(ser.once, path, objs)
                IN  IF obj = 0 THEN out = IntV(1)
                    ELSE IF \E i \in 1..(Len(objs) - 1) : objs[i] = obj
                    THEN out = StrV("<circular reference>")
                    ELSE /\ out.k = (IF heap[obj].k = "list" THEN "list" ELSE "dict")
                         /\ Len(out.items) = Len(heap[obj].items)
                              + (IF heap[obj].k = "object" THEN 1 ELSE 0)

\* object 1 holds object 2 at two positions and object 2 leads back to
\* object 1: both positions are serialized in full, each ending in the
\* sentinel
C31_Witness ==
  /\ ser.pc = "serialized"
  /\ ser.value[1] = [k |-> "dict", items |-> << 2, 2 >>]
  /\ ser.value[2] = [k |-> "object", items |-> << 1, 0 >>]
  /\ ser.once.items[1] = ser.once.items[2]
  /\ ser.once.items[1].k = "dict"
  /\ ser.once.items[1].items[2] = StrV("<circular reference>")
  /\ ser.once.items[1].items[3] = IntV(1)

=============================================================================
